---- MODULE Spec2Model ----
(***************************************************************************)
(* Voice Workflow Builder API: the event log, the webhook handlers that    *)
(* append to it, and the call record that _build_call_record derives from  *)
(* the events of one call id.                                              *)
(*                                                                         *)
(* Python values are tagged records [t, n, s, j, d, l]:                    *)
(*   t  "null" | "bool" | "int" | "float" | "inf" | "str" | "dict" | "list"*)
(*   n  the number: 0/1 for a bool, the value of an int, twice the value   *)
(*      of a float (floats are kept in halves: 3 is 1.5)                   *)
(*   s  the characters of a str, as a sequence of tokens: a token is one   *)
(*      character (" ", a double quote, a digit, a sign, ".") or one word  *)
(*   j  for a str: <<v>> when the str is the JSON text of the structured   *)
(*      value v (a dict, a list, a str that needs escaping), else <<>>     *)
(*   d  the items of a dict, a function from its keys                      *)
(*   l  the items of a list                                                *)
(***************************************************************************)
EXTENDS Integers, Sequences, FiniteSets, TLC

VARIABLES
    events,            \* rows of table events, in id order (id = index)
    carrier_profiles,  \* rows of table carrier_profiles, by mc_number
    call_search_prefs, \* rows of table call_search_prefs, by call_id
    inflight,          \* verify_mc requests awaiting the FMCSA response
    resp,              \* the response of the last GET /api/calls/{call_id}
    norm,              \* the payload normalizer's input and output
    upserts            \* the upserts performed on the two tables, oldest first

vars == <<events, carrier_profiles, call_search_prefs, inflight, resp, norm, upserts>>

-----------------------------------------------------------------------------
(* Bounds of the model. *)

MaxEvents == 3         \* rows of the events table
MaxLayers == 3         \* layers of JSON string encoding around a payload
TicksPerSecond == 2    \* clock resolution: timestamps count half seconds
MaxUpserts == 3        \* upserts made through the storage functions directly
MaxVerifyEvents == 4   \* rows of the events table when verifications overlap

-----------------------------------------------------------------------------
(* Python values. *)

PyNone == [t |-> "null", n |-> 0, s |-> <<>>, j |-> <<>>, d |-> <<>>, l |-> <<>>]
PyBool(b) == [t |-> "bool", n |-> IF b THEN 1 ELSE 0, s |-> <<>>, j |-> <<>>, d |-> <<>>, l |-> <<>>]
PyInt(i) == [t |-> "int", n |-> i, s |-> <<>>, j |-> <<>>, d |-> <<>>, l |-> <<>>]
PyFloat(halves) == [t |-> "float", n |-> halves, s |-> <<>>, j |-> <<>>, d |-> <<>>, l |-> <<>>]
\* float("inf"): what a JSON number beyond the double range (1e999) loads as
PyInf == [t |-> "inf", n |-> 1, s |-> <<>>, j |-> <<>>, d |-> <<>>, l |-> <<>>]
PyStr(toks) == [t |-> "str", n |-> 0, s |-> toks, j |-> <<>>, d |-> <<>>, l |-> <<>>]
PyJsonText(v) == [t |-> "str", n |-> 0, s |-> <<>>, j |-> <<v>>, d |-> <<>>, l |-> <<>>]
PyDict(items) == [t |-> "dict", n |-> 0, s |-> <<>>, j |-> <<>>, d |-> items, l |-> <<>>]
PyList(items) == [t |-> "list", n |-> 0, s |-> <<>>, j |-> <<>>, d |-> <<>>, l |-> items]

EmptyDict == PyDict(<<>>)
EmptyStr == PyStr(<<>>)
Word(w) == PyStr(<<w>>)

IsNone(v) == v.t = "null"
IsDict(v) == v.t = "dict"
IsStr(v) == v.t = "str"
IsNumber(v) == v.t \in {"bool", "int", "float", "inf"}

\* bool(v): Python truthiness
Truthy(v) ==
    CASE v.t = "null" -> FALSE
      [] v.t \in {"bool", "int", "float", "inf"} -> v.n # 0
      [] v.t = "str" -> v.s # <<>> \/ v.j # <<>>
      [] v.t = "dict" -> DOMAIN v.d # {}
      [] v.t = "list" -> Len(v.l) > 0

\* a or b
Or(a, b) == IF Truthy(a) THEN a ELSE b

\* d.get(k) on a dict
Get(v, k) == IF k \in DOMAIN v.d THEN v.d[k] ELSE PyNone

\* a == b: numbers compare by value across bool, int and float
NumHalves(v) == IF v.t = "float" THEN v.n ELSE 2 * v.n
PyEq(a, b) ==
    IF a.t = "inf" \/ b.t = "inf" THEN a = b
    ELSE IF IsNumber(a) /\ IsNumber(b) THEN NumHalves(a) = NumHalves(b) ELSE a = b

-----------------------------------------------------------------------------
(* str methods, on token sequences. *)

Quote == "\""
Digits == <<"0", "1", "2", "3", "4", "5", "6", "7", "8", "9">>
IsDigit(tok) == \E i \in 1..Len(Digits) : Digits[i] = tok
DigitValue(tok) == (CHOOSE i \in 1..Len(Digits) : Digits[i] = tok) - 1

RECURSIVE LStrip(_, _)
LStrip(toks, ch) ==
    IF toks # <<>> /\ Head(toks) = ch THEN LStrip(Tail(toks), ch) ELSE toks

RECURSIVE RStrip(_, _)
RStrip(toks, ch) ==
    IF toks # <<>> /\ toks[Len(toks)] = ch
    THEN RStrip(SubSeq(toks, 1, Len(toks) - 1), ch)
    ELSE toks

\* toks.strip(ch)
StripChar(toks, ch) == RStrip(LStrip(toks, ch), ch)
\* toks.strip()
Strip(toks) == StripChar(toks, " ")

AllDigits(toks) == toks # <<>> /\ \A i \in 1..Len(toks) : IsDigit(toks[i])

RECURSIVE DigitsValue(_)
DigitsValue(toks) ==
    IF toks = <<>> THEN 0
    ELSE 10 * DigitsValue(SubSeq(toks, 1, Len(toks) - 1)) + DigitValue(toks[Len(toks)])

RECURSIVE DigitsOf(_)
DigitsOf(i) ==
    IF i < 10 THEN <<Digits[i + 1]>> ELSE DigitsOf(i \div 10) \o <<Digits[(i % 10) + 1]>>

-----------------------------------------------------------------------------
(* Number conversion. *)

\* int(x) of a float kept in halves: truncation towards zero
TruncHalves(h) == IF h >= 0 THEN h \div 2 ELSE -((-h) \div 2)

\* the sign and the unsigned rest of a numeric literal
SignOf(toks) == IF toks # <<>> /\ Head(toks) = "-" THEN -1 ELSE 1
Unsigned(toks) == IF toks # <<>> /\ Head(toks) \in {"-", "+"} THEN Tail(toks) ELSE toks

\* int(str): optional sign, then digits; None stands for ValueError
IntOfStr(toks) ==
    LET x == Strip(toks) IN
    IF AllDigits(Unsigned(x)) THEN PyInt(SignOf(x) * DigitsValue(Unsigned(x))) ELSE PyNone

\* the position of "." in a literal, 0 when it has none
DotAt(toks) ==
    IF \E i \in 1..Len(toks) : toks[i] = "."
    THEN CHOOSE i \in 1..Len(toks) : toks[i] = "." /\ \A k \in 1..(i - 1) : toks[k] # "."
    ELSE 0

\* float(str): optional sign, digits, optionally "." and a fraction. The
\* fractions of the model are ".0" and ".5" (floats are kept in halves).
FloatOfStr(toks) ==
    LET x == Strip(toks)
        u == Unsigned(x)
        dot == DotAt(u)
        whole == SubSeq(u, 1, dot - 1)
        frac == SubSeq(u, dot + 1, Len(u))
    IN  IF dot = 0
        THEN IF AllDigits(u) THEN PyFloat(SignOf(x) * 2 * DigitsValue(u)) ELSE PyNone
        ELSE IF AllDigits(whole) /\ frac \in {<<"0">>, <<"5">>}
             THEN PyFloat(SignOf(x) * (2 * DigitsValue(whole) + (IF frac = <<"5">> THEN 1 ELSE 0)))
             ELSE PyNone

\* target_type(value) for a number
\* int(float("inf")) raises OverflowError, which no handler catches
OverflowError == [t |-> "OverflowError", n |-> 0, s |-> <<>>, j |-> <<>>, d |-> <<>>, l |-> <<>>]

Cast(value, target_type) ==
    IF value.t = "inf" THEN (IF target_type = "int" THEN OverflowError ELSE value)
    ELSE IF target_type = "int"
    THEN PyInt(IF value.t = "float" THEN TruncHalves(value.n) ELSE value.n)
    ELSE PyFloat(NumHalves(value))

safe_number_convert(value, target_type) ==
    IF IsNone(value) THEN PyNone
    ELSE IF IsNumber(value) THEN Cast(value, target_type)
    ELSE IF IsStr(value)
         THEN IF value.j # <<>> THEN PyNone
              ELSE IF Strip(value.s) = <<>> THEN PyNone
              ELSE IF target_type = "int" THEN IntOfStr(Strip(value.s))
              ELSE FloatOfStr(Strip(value.s))
    ELSE PyNone

-----------------------------------------------------------------------------
(* json.dumps and json.loads. *)

NumberText(v) ==
    LET a == IF v.n < 0 THEN -v.n ELSE v.n
        sign == IF v.n < 0 THEN <<"-">> ELSE <<>>
    IN  IF v.t = "int" THEN sign \o DigitsOf(a)
        ELSE sign \o DigitsOf(a \div 2) \o <<".">> \o (IF a % 2 = 1 THEN <<"5">> ELSE <<"0">>)

NeedsEscape(toks) == \E i \in 1..Len(toks) : toks[i] \in {Quote, "\\"}

\* json.dumps(v): the text of a scalar is spelled out in tokens; the text of
\* a structured value is carried as PyJsonText(v)
json_dumps(v) ==
    CASE v.t = "null" -> PyStr(<<"null">>)
      [] v.t = "bool" -> PyStr(IF v.n = 1 THEN <<"true">> ELSE <<"false">>)
      [] v.t \in {"int", "float"} -> PyStr(NumberText(v))
      [] v.t = "str" /\ v.j = <<>> /\ ~NeedsEscape(v.s) -> PyStr(<<Quote>> \o v.s \o <<Quote>>)
      [] OTHER -> PyJsonText(v)

\* a JSON number: -? (0 | [1-9][0-9]*) (. [0-9]+)?
IsJsonNumber(toks) ==
    LET u == IF toks # <<>> /\ Head(toks) = "-" THEN Tail(toks) ELSE toks
        dot == DotAt(u)
        whole == IF dot = 0 THEN u ELSE SubSeq(u, 1, dot - 1)
        frac == SubSeq(u, dot + 1, Len(u))
    IN  /\ AllDigits(whole)
        /\ (Len(whole) > 1 => Head(whole) # "0")
        /\ (dot # 0 => frac \in {<<"0">>, <<"5">>})

JsonNumber(toks) == IF DotAt(toks) = 0 THEN IntOfStr(toks) ELSE FloatOfStr(toks)

IsQuoted(toks) ==
    /\ Len(toks) >= 2
    /\ Head(toks) = Quote
    /\ toks[Len(toks)] = Quote
    /\ ~NeedsEscape(SubSeq(toks, 2, Len(toks) - 1))

\* json.loads(text): [ok |-> FALSE] stands for JSONDecodeError
json_loads(text) ==
    LET x == Strip(text.s) IN
    IF text.j # <<>> THEN [ok |-> TRUE, value |-> text.j[1]]
    ELSE IF x = <<"null">> THEN [ok |-> TRUE, value |-> PyNone]
    ELSE IF x = <<"true">> THEN [ok |-> TRUE, value |-> PyBool(TRUE)]
    ELSE IF x = <<"false">> THEN [ok |-> TRUE, value |-> PyBool(FALSE)]
    ELSE IF IsJsonNumber(x) THEN [ok |-> TRUE, value |-> JsonNumber(x)]
    ELSE IF IsQuoted(x) THEN [ok |-> TRUE, value |-> PyStr(SubSeq(x, 2, Len(x) - 1))]
    ELSE [ok |-> FALSE, value |-> PyNone]

_parse_payload(payload_str) ==
    IF ~Truthy(payload_str) THEN PyNone
    ELSE IF json_loads(payload_str).ok THEN json_loads(payload_str).value
    ELSE PyNone

\* _payload_as_dict with the number of recursive calls it made
\* Mutation: a string that decodes to a string is not normalized further.
payload_as_dict_once(raw, depth) ==
    IF IsDict(raw) THEN [value |-> raw, depth |-> depth]
    ELSE IF IsStr(raw) /\ IsDict(_parse_payload(raw))
         THEN [value |-> _parse_payload(raw), depth |-> depth]
    ELSE [value |-> EmptyDict, depth |-> depth]

RECURSIVE payload_as_dict_run(_, _)
payload_as_dict_run(raw, depth) ==
    IF IsNone(raw) THEN [value |-> EmptyDict, depth |-> depth]
    ELSE IF IsDict(raw) THEN [value |-> raw, depth |-> depth]
    ELSE IF IsStr(raw)
         THEN LET parsed == _parse_payload(raw) IN
              IF IsDict(parsed) THEN [value |-> parsed, depth |-> depth]
              ELSE IF IsStr(parsed) THEN payload_as_dict_run(parsed, depth + 1)
              ELSE [value |-> EmptyDict, depth |-> depth]
    ELSE [value |-> EmptyDict, depth |-> depth]

_payload_as_dict(raw) == payload_as_dict_run(raw, 0).value

-----------------------------------------------------------------------------
(* The events table and its readers (storage.py). *)

\* datetime.utcnow().isoformat() + "Z" of a clock reading, in ticks
IsoZ(ticks) == [fmt |-> "iso", ticks |-> ticks]

\* datetime.fromisoformat(ts.replace("Z", "+00:00")); ok = FALSE stands for
\* ValueError
fromisoformat(ts) == [ok |-> ts.fmt = "iso", ticks |-> ts.ticks]

\* the clock reading of the newest row: the wall clock of the next insert is
\* this reading plus a step
LastTicks(evs) == IF evs = <<>> THEN 0 ELSE evs[Len(evs)].timestamp.ticks

\* Mutation: every event is stored under the call id c1.
db_log_event_shared(evs, call_id, event_type, payload, now) ==
    Append(evs, [call_id |-> <<"c1">>, event_type |-> event_type,
                 payload |-> json_dumps(payload), timestamp |-> IsoZ(now)])

\* Mutation: INSERT OR REPLACE on (call_id, event_type): the new row takes the
\* place of the call's earlier rows of the type.
db_log_event_replacing(evs, call_id, event_type, payload, now) ==
    Append(SelectSeq(evs, LAMBDA e : ~(e.call_id = call_id /\ e.event_type = event_type)),
           [call_id |-> call_id, event_type |-> event_type,
            payload |-> json_dumps(payload), timestamp |-> IsoZ(now)])

\* INSERT INTO events (call_id, event_type, payload, timestamp)
db_log_event(evs, call_id, event_type, payload, now) ==
    Append(evs, [call_id |-> call_id, event_type |-> event_type,
                 payload |-> json_dumps(payload), timestamp |-> IsoZ(now)])

\* SELECT ... FROM events WHERE call_id = ? ORDER BY id ASC
EventsOf(evs, call_id) == SelectSeq(evs, LAMBDA e : e.call_id = call_id)
get_events_by_call_id(call_id) == EventsOf(events, call_id)

\* SELECT * FROM <table> WHERE <key column> = ?, fetchone()
SelectRow(table, key) == IF key \in DOMAIN table THEN table[key] ELSE PyNone

get_carrier_profile(mc_number) == SelectRow(carrier_profiles, mc_number)

get_call_search_prefs(call_id) == SelectRow(call_search_prefs, call_id)

\* (call_id or "").strip() or "unknown"
_effective_call_id(call_id) ==
    IF Strip(call_id) # <<>> THEN Strip(call_id) ELSE <<"unknown">>

-----------------------------------------------------------------------------
(* _build_call_record (main.py). *)

Absent == [status |-> "absent"]
Raised == [status |-> "raised"]

Max(a, b) == IF a >= b THEN a ELSE b

\* int(x) of a number of ticks taken as seconds
WholeSeconds(ticks) ==
    IF ticks >= 0 THEN ticks \div TicksPerSecond ELSE -((-ticks) \div TicksPerSecond)

\* (e["event_type"] or "").strip().strip('"')
EventKey(e) == StripChar(Strip(e.event_type), Quote)

Put(f, k, v) == [x \in (DOMAIN f) \cup {k} |-> IF x = k THEN v ELSE f[x]]

\* Mutation: by_type.setdefault(key, ...): the first event of a type is kept.
RECURSIVE by_type_first(_, _)
by_type_first(evs, by_type) ==
    IF evs = <<>> THEN by_type
    ELSE by_type_first(Tail(evs),
            IF EventKey(Head(evs)) # <<>> /\ EventKey(Head(evs)) \notin DOMAIN by_type
            THEN Put(by_type, EventKey(Head(evs)),
                     [payload |-> _parse_payload(Head(evs).payload),
                      timestamp |-> Head(evs).timestamp])
            ELSE by_type)

\* for e in events: by_type[key] = {...}: a later event replaces an earlier one
RECURSIVE by_type_loop(_, _)
by_type_loop(evs, by_type) ==
    IF evs = <<>> THEN by_type
    ELSE by_type_loop(Tail(evs),
            IF EventKey(Head(evs)) # <<>>
            THEN Put(by_type, EventKey(Head(evs)),
                     [payload |-> _parse_payload(Head(evs).payload),
                      timestamp |-> Head(evs).timestamp])
            ELSE by_type)

\* (by_type.get(name) or {}).get("payload")
RawPayload(by_type, name) ==
    IF <<name>> \in DOMAIN by_type THEN by_type[<<name>>].payload ELSE PyNone

\* (by_type.get(name) or {}).get("payload") or {}
TypePayload(by_type, name) == Or(RawPayload(by_type, name), EmptyDict)

\* the span between the first and the last event, floored at zero
duration_span(evs) ==
    LET first == fromisoformat(evs[1].timestamp)
        last == fromisoformat(evs[Len(evs)].timestamp)
    IN  IF first.ok /\ last.ok THEN Max(0, WholeSeconds(last.ticks - first.ticks)) ELSE 0

\* the workflow-reported call length replaces the span
duration_seconds(evs, classified) ==
    LET reported == safe_number_convert(Get(classified, "call_duration_seconds"), "int") IN
    IF ~IsNone(Get(classified, "call_duration_seconds")) /\ ~IsNone(reported) /\ reported.n >= 0
    THEN reported.n
    ELSE duration_span(evs)

\* the conversion of the reported call length raises
duration_raises(classified) ==
    safe_number_convert(Get(classified, "call_duration_seconds"), "int") = OverflowError

\* Mutation: eligible == False and eligible == True in place of is.
verification_status_eq(eligible) ==
    IF PyEq(eligible, PyBool(FALSE)) THEN "failed"
    ELSE IF PyEq(eligible, PyBool(TRUE)) THEN "verified"
    ELSE "pending"

verification_status(eligible) ==
    IF eligible = PyBool(FALSE) THEN "failed"
    ELSE IF eligible = PyBool(TRUE) THEN "verified"
    ELSE "pending"

\* neg.get("accepted") in (True, "true", "True")
accepted(neg) ==
    \/ PyEq(Get(neg, "accepted"), PyBool(TRUE))
    \/ Get(neg, "accepted") = Word("true")
    \/ Get(neg, "accepted") = Word("True")

\* Mutation: a failed verification does not keep an accepted call from being
\* booked.
outcome_accepted_first(eligible, neg) ==
    IF Truthy(neg) /\ accepted(neg) THEN "booked"
    ELSE IF eligible = PyBool(FALSE) THEN "failed_verification"
    ELSE IF ~Truthy(neg) THEN "dropped"
    ELSE "no_deal"

outcome(eligible, neg) ==
    IF eligible # PyBool(TRUE) /\ eligible = PyBool(FALSE) THEN "failed_verification"
    ELSE IF ~Truthy(neg) THEN "dropped"
    ELSE IF accepted(neg) THEN "booked"
    ELSE "no_deal"

\* the placeholder of a missing id, U+2014
EmDash == "--"

\* Mutation: the retrieved load is preferred to the negotiated one.
load_data_best_first(neg, best_load) ==
    IF Truthy(Get(best_load, "load_id")) \/ Truthy(Get(best_load, "origin")) THEN best_load ELSE neg

\* load_data = neg if neg.get("load_id") or neg.get("origin") else best_load
load_data_of(neg, best_load) ==
    IF Truthy(Get(neg, "load_id")) \/ Truthy(Get(neg, "origin")) THEN neg ELSE best_load

\* the snapshot of the matched load, None when the payload names no load
load_snapshot(load_data) ==
    IF Truthy(load_data) /\ (Truthy(Get(load_data, "load_id")) \/ Truthy(Get(load_data, "origin")))
    THEN PyDict([
        load_id |-> Or(Get(load_data, "load_id"), Word(EmDash)),
        origin |-> Or(Get(load_data, "origin"), Word("Unknown")),
        destination |-> Or(Get(load_data, "destination"), Word("Unknown")),
        pickup_datetime |-> Or(Get(load_data, "pickup_datetime"), EmptyStr),
        delivery_datetime |-> Or(Get(load_data, "delivery_datetime"), EmptyStr),
        equipment_type |-> Or(Get(load_data, "equipment_type"), Word("Van")),
        loadboard_rate |-> Or(safe_number_convert(Or(Get(load_data, "loadboard_rate"),
                                                     Get(load_data, "rate")), "float"), PyInt(0)),
        weight |-> Or(safe_number_convert(Get(load_data, "weight"), "float"), PyInt(0)),
        commodity_type |-> Or(Or(Get(load_data, "commodity_type"), Get(load_data, "commodity")), EmptyStr),
        miles |-> Or(safe_number_convert(Get(load_data, "miles"), "float"), PyInt(0)),
        notes |-> Or(Get(load_data, "notes"), EmptyStr),
        num_of_pieces |-> safe_number_convert(Get(load_data, "num_of_pieces"), "int"),
        dimensions |-> Or(Get(load_data, "dimensions"), EmptyStr)])
    ELSE PyNone

\* rounds = neg.get("negotiation_rounds") or 0, then int(rounds) unless it is
\* an int already (a bool is an int); ValueError and TypeError give 0, the
\* OverflowError of an infinite float is not caught
negotiation_rounds(neg) ==
    LET rounds == Or(Get(neg, "negotiation_rounds"), PyInt(0)) IN
    IF rounds.t \in {"int", "bool"} THEN rounds
    ELSE IF rounds.t = "float" THEN PyInt(TruncHalves(rounds.n))
    ELSE IF rounds.t = "inf" THEN OverflowError
    ELSE IF IsStr(rounds) /\ rounds.j = <<>> THEN Or(IntOfStr(rounds.s), PyInt(0))
    ELSE PyInt(0)

\* the items Python iterates over in `for x in value`: the items of a list,
\* the characters of a str, the keys of a dict (none of which is a number)
IterItems(v) ==
    IF v.t = "list" THEN v.l
    ELSE IF v.t = "str" THEN [i \in 1..Len(v.s) |-> Word(v.s[i])]
    ELSE [i \in 1..Cardinality(DOMAIN v.d) |-> EmptyStr]

Iterable(v) == v.t \in {"list", "str", "dict"}

counter_offers(neg) ==
    LET items == IterItems(Or(Get(neg, "counter_offers"), PyList(<<>>))) IN
    PyList([i \in 1..Len(items) |-> Or(safe_number_convert(items[i], "float"), PyInt(0))])

negotiation_of(load_matched, neg) ==
    LET listed == Get(load_matched, "loadboard_rate")
        initial_offer == safe_number_convert(
            Or(Or(Get(neg, "loadboard_rate"), Get(neg, "original_rate")), listed), "float")
    IN  IF Truthy(load_matched) \/ Truthy(neg)
        THEN PyDict([
            rounds |-> negotiation_rounds(neg),
            initial_offer |-> Or(Or(initial_offer, listed), PyInt(0)),
            counter_offers |-> counter_offers(neg),
            final_rate |-> safe_number_convert(Or(Get(neg, "final_price"), Get(neg, "final_rate")), "float"),
            agreed |-> PyBool(accepted(neg))])
        ELSE PyNone

\* the listed rate of the load, taken from the negotiation when it is zero
backfill_rate(load_matched, negotiation) ==
    LET fallback_rate == Or(Get(negotiation, "initial_offer"), Get(negotiation, "final_rate")) IN
    IF /\ Truthy(load_matched)
       /\ PyEq(Or(Get(load_matched, "loadboard_rate"), PyInt(0)), PyInt(0))
       /\ Truthy(negotiation)
       /\ ~IsNone(fallback_rate)
       /\ fallback_rate.n > 0
    THEN PyDict(Put(load_matched.d, "loadboard_rate", fallback_rate))
    ELSE load_matched

\* the text the TEXT column mc_number is compared with for a bound value: a
\* str as it is, a number as its text
profile_key(mc_number) ==
    IF IsStr(mc_number) THEN mc_number.s
    ELSE IF mc_number.t \in {"int", "bool"} THEN NumberText(PyInt(mc_number.n))
    ELSE IF mc_number.t = "float" THEN NumberText(mc_number)
    ELSE <<"Inf">>

\* the profile is looked up with a list or a mapping, which sqlite3 cannot
\* bind: ProgrammingError
profile_lookup_raises(carrier, mc_number) ==
    /\ ~Truthy(Or(Or(Get(carrier, "name"), Get(carrier, "legal_name")), EmptyStr))
    /\ Truthy(mc_number)
    /\ mc_number.t \in {"list", "dict"}

\* Mutation: the stored profile is preferred to the name of the payload.
carrier_name_profile_first(carrier, mc_number, profiles) ==
    LET named == Or(Or(Get(carrier, "name"), Get(carrier, "legal_name")), EmptyStr)
        profile == SelectRow(profiles, profile_key(mc_number))
        looked_up == IF Truthy(mc_number)
                     THEN Or(Get(Or(profile, EmptyDict), "legal_name"), EmptyStr)
                     ELSE EmptyStr
    IN  Or(Or(looked_up, named), Word("Unknown"))

\* the carrier's name: the payload's, else the stored profile's, else Unknown
carrier_name_of(carrier, mc_number, profiles) ==
    LET named == Or(Or(Get(carrier, "name"), Get(carrier, "legal_name")), EmptyStr)
        profile == SelectRow(profiles, profile_key(mc_number))
        looked_up == IF ~Truthy(named) /\ Truthy(mc_number)
                     THEN Or(Get(Or(profile, EmptyDict), "legal_name"), EmptyStr)
                     ELSE named
    IN  Or(looked_up, Word("Unknown"))

\* str.lower() of a word; the words of the model that have capitals
LowerWord(tok) ==
    CASE tok = "Positive" -> "positive"
      [] tok = "Really" -> "really"
      [] tok = "Negative" -> "negative"
      [] tok = "Impatient" -> "impatient"
      [] tok = "L1" -> "l1"
      [] tok = "L2" -> "l2"
      [] tok = "LA" -> "la"
      [] tok = "Unknown" -> "unknown"
      [] OTHER -> tok

Lower(toks) == [i \in 1..Len(toks) |-> LowerWord(toks[i])]

\* the words of the model that hold a pattern as a proper substring
SubstringPairs ==
    {<<"positively", "positive">>, <<"negatively", "negative">>,
     <<"frustrated", "frustrat">>, <<"frustrating", "frustrat">>,
     <<"impatiently", "impatient">>}

\* pat in toks, for a pattern of one word
Contains(toks, pat) ==
    \E i \in 1..Len(toks) : toks[i] = pat \/ <<toks[i], pat>> \in SubstringPairs

\* Mutation: the substring fallback looks for 'negative' first.
_normalize_sentiment_negative_first(raw) ==
    IF ~Truthy(raw) THEN "neutral"
    ELSE LET x == Lower(Strip(raw.s)) IN
         IF x \in {<<"positive">>, <<"really", " ", "positive">>, <<"very", " ", "positive">>} THEN "positive"
         ELSE IF x = <<"neutral">> THEN "neutral"
         ELSE IF x \in {<<"negative">>, <<"unprofessional">>} THEN "negative"
         ELSE IF x \in {<<"frustrated">>, <<"impatient">>, <<"dismissive">>, <<"angry">>} THEN "frustrated"
         ELSE IF Contains(x, "negative") THEN "negative"
         ELSE IF Contains(x, "positive") THEN "positive"
         ELSE IF Contains(x, "frustrat") \/ Contains(x, "angry") \/ Contains(x, "impatient") THEN "frustrated"
         ELSE "neutral"

_normalize_sentiment(raw) ==
    IF ~Truthy(raw) THEN "neutral"
    ELSE LET x == Lower(Strip(raw.s)) IN
         IF x \in {<<"positive">>, <<"professional", " ", "&", " ", "satisfied">>,
                   <<"friendly", " ", "&", " ", "cooperative">>,
                   <<"really", " ", "positive">>, <<"very", " ", "positive">>} THEN "positive"
         ELSE IF x = <<"neutral">> THEN "neutral"
         ELSE IF x \in {<<"negative">>, <<"unprofessional">>, <<"really", " ", "negative">>,
                        <<"very", " ", "negative">>} THEN "negative"
         ELSE IF x \in {<<"frustrated">>, <<"impatient">>, <<"dismissive">>, <<"angry">>} THEN "frustrated"
         ELSE IF Contains(x, "positive") THEN "positive"
         ELSE IF Contains(x, "negative") THEN "negative"
         ELSE IF Contains(x, "frustrat") \/ Contains(x, "angry") \/ Contains(x, "impatient") THEN "frustrated"
         ELSE "neutral"

\* Mutation: the sentiment of call_classified is tried first.
sentiment_label_classified_first(sentiment_row, classified_row) ==
    Or(Get(classified_row, "sentiment"),
       Or(Get(sentiment_row, "sentiment_classification"), Get(sentiment_row, "sentiment")))

\* the label the sentiment is classified from
sentiment_label(sentiment_row, classified_row) ==
    Or(Or(Get(sentiment_row, "sentiment_classification"), Get(sentiment_row, "sentiment")),
       Get(classified_row, "sentiment"))

\* the names a reasoning is looked for under, and the names of the nested
\* objects, in the order they are tried
_reasoning_keys ==
    <<"sentiment_reasoning", "reasoning", "response_reasoning", "sentimentReasoning",
      "reason", "why", "explanation", "Response Reasoning", "Sentiment_Reasoning">>
NestedKeys == <<"payload", "data", "body">>

\* isinstance(v, str) and v.strip()
NonBlankStr(v) == IsStr(v) /\ (v.j # <<>> \/ Strip(v.s) # <<>>)

\* the first loop of _first_reasoning: the first name that holds a non-blank
\* string, stripped
reasoning_at(d) ==
    LET hits == {i \in 1..Len(_reasoning_keys) : NonBlankStr(Get(d, _reasoning_keys[i]))}
        v == Get(d, _reasoning_keys[CHOOSE i \in hits : \A j \in hits : i <= j])
    IN  IF hits = {} THEN PyNone
        ELSE IF v.j # <<>> THEN v ELSE PyStr(Strip(v.s))

\* the mapping a nested object is searched as: itself, or what its JSON text
\* decodes to; None otherwise
nested_dict(sub) ==
    IF IsDict(sub) THEN sub
    ELSE IF IsStr(sub) /\ json_loads(sub).ok /\ IsDict(json_loads(sub).value)
         THEN json_loads(sub).value
    ELSE PyNone

RECURSIVE _first_reasoning(_)
_first_reasoning(d) ==
    IF ~IsDict(d) THEN PyNone
    ELSE IF reasoning_at(d) # PyNone THEN reasoning_at(d)
    ELSE LET found(i) == _first_reasoning(nested_dict(Get(d, NestedKeys[i])))
             hits == {i \in 1..Len(NestedKeys) : Truthy(found(i))}
         IN  IF hits = {} THEN PyNone
             ELSE found(CHOOSE i \in hits : \A j \in hits : i <= j)

\* the snapshot of the call's search preferences
prefs_snapshot(prefs_row) ==
    IF Truthy(prefs_row) /\ IsDict(prefs_row)
    THEN PyDict([
        origin_city |-> Get(prefs_row, "origin_city"),
        origin_state |-> Get(prefs_row, "origin_state"),
        destination_city |-> Get(prefs_row, "destination_city"),
        destination_state |-> Get(prefs_row, "destination_state"),
        equipment_type |-> Get(prefs_row, "equipment_type"),
        weight_capacity |-> safe_number_convert(Get(prefs_row, "weight_capacity"), "int"),
        min_temp |-> safe_number_convert(Get(prefs_row, "min_temp"), "float"),
        max_temp |-> safe_number_convert(Get(prefs_row, "max_temp"), "float"),
        notes |-> Get(prefs_row, "notes"),
        pickup_date |-> Get(prefs_row, "pickup_date"),
        departure_date |-> Get(prefs_row, "departure_date"),
        latest_departure_date |-> Get(prefs_row, "latest_departure_date")])
    ELSE PyNone

\* Mutation: no record when no event carries a type.
no_typed_events(evs) == by_type_loop(evs, <<>>) = <<>>

\* if not events: return None
no_events(evs) == evs = <<>>

\* _build_call_record over the events read for call_id. A status of
\* "raised" stands for the exception of a method call on a value of the
\* wrong type (x.get on a str, a list or a number; iteration over a number;
\* x.strip on a value that is no str) or of int() on an infinite float.
\* the record of a call from its events and the two tables
BuildRecordIn(evs, call_id, profiles, prefs) ==
    IF no_events(evs) THEN Absent
    ELSE
    LET by_type == by_type_loop(evs, <<>>)
        classified == TypePayload(by_type, "call_classified")
        verify == TypePayload(by_type, "verify_mc_result")
        carrier == Or(Get(verify, "carrier"), EmptyDict)
        eligible == Get(verify, "eligible")
        mc_number == Or(Or(Get(carrier, "mc_number"), Get(verify, "mc_number")), EmptyStr)
        neg == TypePayload(by_type, "negotiation_complete")
        best_load == TypePayload(by_type, "best_load_retrieved")
        load_data == load_data_of(neg, best_load)
        load_matched == load_snapshot(load_data)
        negotiation == negotiation_of(load_matched, neg)
        sentiment_row == _payload_as_dict(RawPayload(by_type, "sentiment_classified"))
        classified_row == _payload_as_dict(RawPayload(by_type, "call_classified"))
        label == sentiment_label(sentiment_row, classified_row)
        raises ==
            \/ ~IsDict(classified)
            \/ (IsDict(classified) /\ duration_raises(classified))
            \/ ~IsDict(verify)
            \/ ~IsDict(carrier)
            \/ (IsDict(carrier) /\ profile_lookup_raises(carrier, mc_number))
            \/ ~IsDict(neg)
            \/ (IsDict(neg) /\ negotiation_rounds(neg) = OverflowError)
            \/ ~IsDict(load_data)
            \/ ~Iterable(Or(Get(neg, "counter_offers"), PyList(<<>>)))
            \/ (Truthy(label) /\ ~IsStr(label))
    IN  IF raises THEN Raised
        ELSE [status |-> "ok",
              id |-> call_id,
              timestamp |-> evs[1].timestamp,
              mc_number |-> Or(mc_number, Word(EmDash)),
              carrier_name |-> carrier_name_of(carrier, mc_number, profiles),
              fmcsa_verified |-> (eligible = PyBool(TRUE)),
              verification_status |-> verification_status(eligible),
              load_matched |-> backfill_rate(load_matched, negotiation),
              negotiation |-> negotiation,
              outcome |-> outcome(eligible, neg),
              sentiment |-> _normalize_sentiment(label),
              sentiment_tone |-> Or(Get(sentiment_row, "tone"), Get(classified_row, "tone")),
              sentiment_reasoning |-> Or(_first_reasoning(sentiment_row),
                                         _first_reasoning(classified_row)),
              call_duration_seconds |-> duration_seconds(evs, classified),
              call_search_prefs |-> prefs_snapshot(SelectRow(prefs, call_id))]

BuildRecord(evs, call_id) == BuildRecordIn(evs, call_id, carrier_profiles, call_search_prefs)

_build_call_record(call_id) == BuildRecord(get_events_by_call_id(call_id), call_id)

-----------------------------------------------------------------------------
(* The handlers (main.py) and the upserts (storage.py). *)

NoResp == [call_id |-> <<>>, result |-> [status |-> "none"]]
NormIdle == [raw |-> PyNone, base |-> PyNone, layers |-> 0, called |-> FALSE,
             out |-> [value |-> PyNone, depth |-> 0]]

\* the wall clock read by an insert: the newest row's reading plus a step
Now(step) == LastTicks(events) + step

\* an upsert as the history keeps it: the table by its key column, the key
\* and the caller's updates
Upsert(key_column, key, updates) == [key_column |-> key_column, key |-> key, updates |-> updates]

\* the columns that the schema declares TEXT, INTEGER and REAL
TextColumns ==
    {"mc_number", "dot_number", "legal_name", "physical_city", "physical_state",
     "origin_city", "origin_state", "destination_city", "destination_state", "pickup_date",
     "departure_date", "latest_departure_date", "equipment_type", "notes"}
IntegerColumns == {"origin_radius_miles", "dest_radius_miles", "weight_capacity"}
RealColumns ==
    {"home_lat", "home_lng", "min_temp", "max_temp", "origin_lat", "origin_lng", "dest_lat", "dest_lng"}

\* the value SQLite keeps for a value bound to a column: a TEXT column keeps
\* a number as its text, an INTEGER column keeps the text of an integer as
\* the integer, a REAL column keeps an integer as a float
Affinity(column, value) ==
    IF column \in TextColumns /\ value.t \in {"int", "float"} THEN PyStr(NumberText(value))
    ELSE IF column \in IntegerColumns /\ IsStr(value) /\ value.j = <<>> /\ AllDigits(value.s)
         THEN PyInt(DigitsValue(value.s))
    ELSE IF column \in RealColumns /\ value.t = "int" THEN PyFloat(2 * value.n)
    ELSE value

\* origin_radius_miles INTEGER DEFAULT 50, dest_radius_miles INTEGER DEFAULT 50
DefaultRadius == 50
\* the columns of a table that have a default, which an INSERT that does not
\* name them leaves in the new row
ColumnDefaults(key_column) ==
    IF key_column = "mc_number"
    THEN [c \in {"origin_radius_miles", "dest_radius_miles"} |-> PyInt(DefaultRadius)]
    ELSE <<>>

\* the columns of a table by its key column, without id, the key column and
\* updated_at
Columns(key_column) ==
    IF key_column = "mc_number"
    THEN {"dot_number", "legal_name", "physical_city", "physical_state", "home_lat", "home_lng",
          "equipment_type", "min_temp", "max_temp", "origin_radius_miles", "dest_radius_miles"}
    ELSE {"mc_number", "origin_city", "origin_state", "destination_city", "destination_state",
          "pickup_date", "departure_date", "latest_departure_date", "equipment_type",
          "weight_capacity", "origin_lat", "origin_lng", "origin_radius_miles", "dest_lat",
          "dest_lng", "dest_radius_miles", "min_temp", "max_temp", "notes"}

\* Mutation: an existing row takes every value of the updates, None included.
upsert_row_overwriting(table, key, key_column, updates, now) ==
    LET stamped == Put([c \in DOMAIN updates |-> Affinity(c, updates[c])], "updated_at", PyInt(now))
    IN  PyDict([c \in (IF key \in DOMAIN table THEN DOMAIN table[key].d ELSE DOMAIN ColumnDefaults(key_column))
                      \cup (DOMAIN stamped) \cup {key_column} |->
                   IF c = key_column THEN PyStr(key)
                   ELSE IF c \in DOMAIN stamped THEN stamped[c]
                   ELSE IF key \in DOMAIN table THEN table[key].d[c]
                   ELSE ColumnDefaults(key_column)[c]])

\* a row of carrier_profiles or call_search_prefs after an upsert: an
\* existing row takes the values that are not None, a new row takes them all
\* and the defaults of the columns it does not name
upsert_row(table, key, key_column, updates, now) ==
    LET stamped == Put([c \in DOMAIN updates |-> Affinity(c, updates[c])], "updated_at", PyInt(now))
        defaults == ColumnDefaults(key_column)
    IN  IF key \in DOMAIN table
        THEN PyDict([c \in (DOMAIN table[key].d) \cup (DOMAIN stamped) |->
                        IF c \in DOMAIN stamped /\ (~IsNone(stamped[c]) \/ c = "updated_at")
                        THEN stamped[c]
                        ELSE Get(table[key], c)])
        ELSE PyDict([c \in (DOMAIN stamped) \cup (DOMAIN defaults) \cup {key_column} |->
                        IF c = key_column THEN PyStr(key)
                        ELSE IF c \in DOMAIN stamped THEN stamped[c]
                        ELSE defaults[c]])

\* the caller's dict after the upsert, which writes updated_at and, for a new
\* row, the key into it; updated_at holds the clock reading
upsert_mutated(table, key, key_column, updates, now) ==
    IF key \in DOMAIN table
    THEN PyDict(Put(updates, "updated_at", PyInt(now)))
    ELSE PyDict(Put(Put(updates, "updated_at", PyInt(now)), key_column, PyStr(key)))

upsert_carrier_profile(mc_number, updates, now) ==
    Put(carrier_profiles, mc_number, upsert_row(carrier_profiles, mc_number, "mc_number", updates, now))

upsert_call_search_prefs(call_id, updates, now) ==
    Put(call_search_prefs, call_id, upsert_row(call_search_prefs, call_id, "call_id", updates, now))

\* Mutation: the call id is stored as it was given, and a probe is logged.
log_event_as_given(call_id, event_type, payload, step) ==
    /\ Len(events) + Len(inflight) < MaxEvents
    /\ events' = db_log_event(events, IF Strip(call_id) # <<>> THEN call_id ELSE <<"unknown">>,
                     IF Strip(event_type) = <<>> THEN <<"log_event">> ELSE Strip(event_type),
                     payload, Now(step))
    /\ resp' = NoResp
    /\ UNCHANGED <<carrier_profiles, call_search_prefs, inflight, norm, upserts>>

\* POST /log_event: a request without payload is a schema probe
log_event(call_id, event_type, payload, step) ==
    /\ Len(events) + Len(inflight) < MaxEvents
    /\ IF IsNone(payload)
       THEN UNCHANGED <<events, resp>>
       ELSE /\ events' = db_log_event(events, _effective_call_id(call_id),
                            IF Strip(event_type) = <<>> THEN <<"log_event">> ELSE Strip(event_type),
                            payload, Now(step))
            /\ resp' = NoResp
    /\ UNCHANGED <<carrier_profiles, call_search_prefs, inflight, norm, upserts>>

\* POST /call_output: the payload is a dict or a str
call_output(call_id, event_type, payload, step) ==
    /\ Len(events) + Len(inflight) < MaxEvents
    /\ events' = db_log_event(events, _effective_call_id(call_id),
                    IF Strip(event_type) = <<>> THEN <<"call_output">> ELSE Strip(event_type),
                    payload, Now(step))
    /\ resp' = NoResp
    /\ UNCHANGED <<carrier_profiles, call_search_prefs, inflight, norm, upserts>>

\* str.upper() of a token
UpperWord(tok) == IF tok = "mc" THEN "MC" ELSE tok

\* req.mc_number.strip().upper().replace("MC", "").replace("-", "").strip()
mc_normalized(mc_number) ==
    Strip(SelectSeq([i \in 1..Len(Strip(mc_number)) |-> UpperWord(Strip(mc_number)[i])],
                    LAMBDA tok : tok \notin {"MC", "-"}))

\* the verify_mc_result of a lookup that failed
lookup_failed(reason) ==
    PyDict([ok |-> PyBool(TRUE), eligible |-> PyBool(FALSE), reason |-> PyStr(reason),
            carrier |-> PyNone, raw |-> PyNone])

\* POST /verify_mc up to the await of the FMCSA response. webkey is the
\* FMCSA_WEBKEY of the environment at the time of the request.
verify_mc_request_within(call_id, mc_number, webkey, step, limit) ==
    LET cid == _effective_call_id(call_id)
        requested == db_log_event(events, cid, <<"verify_mc_requested">>,
                        PyDict([mc_number |-> PyStr(mc_normalized(mc_number)),
                                original_input |-> PyStr(mc_number)]), Now(step))
    IN  /\ Len(events) + Len(inflight) + 2 <= limit
        /\ IF webkey = <<>>
           THEN /\ events' = db_log_event(requested, cid, <<"verify_mc_result">>,
                        lookup_failed(<<"FMCSA_WEBKEY", " ", "not", " ", "configured">>),
                        LastTicks(requested) + step)
                /\ UNCHANGED inflight
           ELSE /\ events' = requested
                /\ inflight' = Append(inflight, [cid |-> cid, mc_normalized |-> mc_normalized(mc_number)])
        /\ resp' = NoResp
        /\ UNCHANGED <<carrier_profiles, call_search_prefs, norm, upserts>>

verify_mc_request(call_id, mc_number, webkey, step) ==
    verify_mc_request_within(call_id, mc_number, webkey, step, MaxEvents)

\* d.get(k, default)
GetDefault(v, k, default) == IF k \in DOMAIN v.d THEN v.d[k] ELSE default

RemoveAt(seq, i) == SubSeq(seq, 1, i - 1) \o SubSeq(seq, i + 1, Len(seq))

\* An upsert as two steps that other upserts may come between: the existence
\* check (SELECT ... WHERE key = ?) and the write (UPDATE or INSERT, commit).
\* inflight holds the upserts between their steps, with what the check saw.
table_of(key_column) == IF key_column = "mc_number" THEN carrier_profiles ELSE call_search_prefs

upsert_check(u) ==
    /\ Len(upserts) + Len(inflight) < MaxUpserts
    /\ inflight' = Append(inflight, [upsert |-> u, existing |-> u.key \in DOMAIN table_of(u.key_column)])
    /\ UNCHANGED <<events, carrier_profiles, call_search_prefs, resp, norm, upserts>>

\* the write: an INSERT of a key that was stored since the check fails on the
\* UNIQUE constraint of the key column (sqlite3.IntegrityError) and nothing is
\* committed; the history keeps the upsert either way
upsert_write(i) ==
    LET u == inflight[i].upsert
        table == table_of(u.key_column)
        fails == ~inflight[i].existing /\ u.key \in DOMAIN table
        written == Put(table, u.key, upsert_row(table, u.key, u.key_column, u.updates, Now(1)))
    IN  /\ i \in 1..Len(inflight)
        /\ IF fails
           THEN /\ resp' = [call_id |-> u.key, result |-> Raised]
                /\ UNCHANGED <<carrier_profiles, call_search_prefs>>
           ELSE /\ resp' = NoResp
                /\ IF u.key_column = "mc_number"
                   THEN carrier_profiles' = written /\ UNCHANGED call_search_prefs
                   ELSE call_search_prefs' = written /\ UNCHANGED carrier_profiles
        /\ upserts' = Append(upserts, u)
        /\ inflight' = RemoveAt(inflight, i)
        /\ UNCHANGED <<events, norm>>

\* the verify_mc_result of a carrier that FMCSA knows
lookup_found(mc, carrier_raw) ==
    LET allowed_to_operate == GetDefault(carrier_raw, "allowedToOperate", Word("N"))
        out_of_service == GetDefault(carrier_raw, "outOfService", Word("N"))
        eligible == allowed_to_operate = Word("Y") /\ out_of_service # Word("Y")
        reason == IF eligible THEN PyNone
                  ELSE IF allowed_to_operate # Word("Y")
                       THEN PyStr(<<"Carrier", " ", "is", " ", "not", " ", "allowed", " ", "to", " ", "operate">>)
                       ELSE PyStr(<<"Carrier", " ", "is", " ", "currently", " ", "out", " ", "of", " ", "service">>)
    IN  PyDict([mc_number |-> PyStr(mc), eligible |-> PyBool(eligible), reason |-> reason,
                carrier |-> PyDict([
                    name |-> Or(Get(carrier_raw, "legalName"), Get(carrier_raw, "dbaName")),
                    mc_number |-> PyStr(mc),
                    dot_number |-> Get(carrier_raw, "dotNumber"),
                    allowed_to_operate |-> allowed_to_operate,
                    out_of_service |-> out_of_service,
                    safety_rating |-> Get(carrier_raw, "safetyRating"),
                    physical_city |-> Get(carrier_raw, "phyCity"),
                    physical_state |-> Get(carrier_raw, "phyState")])])

\* Mutation: the result of a carrier that was found is logged once more by the
\* exception handler.
verify_mc_response_twice(i, response, step) ==
    LET req == inflight[i]
        result == IF response.kind = "found"
                  THEN lookup_found(req.mc_normalized, response.carrier_raw)
                  ELSE lookup_failed(<<"MC", " ", "not", " ", "found">>)
        logged == db_log_event(events, req.cid, <<"verify_mc_result">>, result, Now(step))
    IN  /\ i \in 1..Len(inflight)
        /\ events' = IF response.kind = "found"
                     THEN db_log_event(logged, req.cid, <<"verify_mc_result">>,
                                       lookup_failed(<<"timeout">>), LastTicks(logged) + step)
                     ELSE logged
        /\ inflight' = RemoveAt(inflight, i)
        /\ resp' = NoResp
        /\ UNCHANGED <<carrier_profiles, upserts, call_search_prefs, norm>>

\* POST /verify_mc from the FMCSA response on. response.kind is "404",
\* "status" (another status than 200), "empty" (no content), "found", or
\* "exception" (a timeout or any other exception of the try block).
verify_mc_response(i, response, step) ==
    LET req == inflight[i]
        result == CASE response.kind = "404" -> lookup_failed(<<"MC", " ", "not", " ", "found">>)
                    [] response.kind = "status" -> lookup_failed(<<"FMCSA", " ", "API", " ", "error">>)
                    [] response.kind = "empty" -> lookup_failed(<<"MC", " ", "not", " ", "found">>)
                    [] response.kind = "found" -> lookup_found(req.mc_normalized, response.carrier_raw)
                    [] OTHER -> lookup_failed(<<"timeout">>)
        updates == [dot_number |-> Get(response.carrier_raw, "dotNumber"),
                    legal_name |-> Or(Get(response.carrier_raw, "legalName"),
                                      Get(response.carrier_raw, "dbaName")),
                    physical_city |-> Get(response.carrier_raw, "phyCity"),
                    physical_state |-> Get(response.carrier_raw, "phyState")]
    IN  /\ i \in 1..Len(inflight)
        /\ events' = db_log_event(events, req.cid, <<"verify_mc_result">>, result, Now(step))
        /\ IF response.kind = "found"
           THEN /\ carrier_profiles' = upsert_carrier_profile(req.mc_normalized, updates, Now(step))
                /\ upserts' = Append(upserts, Upsert("mc_number", req.mc_normalized, updates))
           ELSE UNCHANGED <<carrier_profiles, upserts>>
        /\ inflight' = RemoveAt(inflight, i)
        /\ resp' = NoResp
        /\ UNCHANGED <<call_search_prefs, norm>>

\* POST /set_call_search_prefs: fields holds the request's fields that are
\* not None
set_call_search_prefs(call_id, fields, step) ==
    LET cid == _effective_call_id(call_id)
        updates == [k \in DOMAIN fields |->
                       IF k = "weight_capacity" THEN safe_number_convert(fields[k], "int")
                       ELSE IF k \in {"min_temp", "max_temp"} THEN safe_number_convert(fields[k], "float")
                       ELSE fields[k]]
    IN  /\ Len(events) + Len(inflight) < MaxEvents
        /\ call_search_prefs' = upsert_call_search_prefs(cid, updates, Now(step))
        /\ upserts' = Append(upserts, Upsert("call_id", cid, updates))
        /\ events' = db_log_event(events, cid, <<"call_search_prefs_updated">>,
                        upsert_mutated(call_search_prefs, cid, "call_id", updates, Now(step)), Now(step))
        /\ resp' = NoResp
        /\ UNCHANGED <<carrier_profiles, inflight, norm>>

\* POST /submit_load: the load without its None fields is logged as the
\* call's best_load_retrieved; 400 when it has neither load_id nor origin
submit_load(call_id, load, step) ==
    LET dumped == [k \in {x \in DOMAIN load : ~IsNone(load[x])} |-> load[k]]
        payload == IF "rate" \notin DOMAIN dumped /\ "loadboard_rate" \in DOMAIN dumped
                   THEN PyDict(Put(dumped, "rate", dumped["loadboard_rate"]))
                   ELSE PyDict(dumped)
    IN  /\ Len(events) + Len(inflight) < MaxEvents
        /\ IF ~Truthy(Get(payload, "load_id")) /\ ~Truthy(Get(payload, "origin"))
           THEN UNCHANGED <<events, resp>>
           ELSE /\ events' = db_log_event(events, _effective_call_id(call_id),
                                <<"best_load_retrieved">>, payload, Now(step))
                /\ resp' = NoResp
        /\ UNCHANGED <<carrier_profiles, call_search_prefs, inflight, norm, upserts>>

\* GET /api/calls/{call_id}
\* Mutation: a view of a call is logged as an event of the call.
api_get_call_logged(call_id) ==
    /\ resp' = [call_id |-> call_id, result |-> _build_call_record(call_id)]
    /\ events' = IF Len(events) < MaxEvents
                 THEN db_log_event(events, call_id, <<"call_viewed">>, EmptyDict, 0)
                 ELSE events
    /\ UNCHANGED <<carrier_profiles, call_search_prefs, inflight, norm, upserts>>

api_get_call(call_id) ==
    /\ resp' = [call_id |-> call_id, result |-> _build_call_record(call_id)]
    /\ UNCHANGED <<events, carrier_profiles, call_search_prefs, inflight, norm, upserts>>

-----------------------------------------------------------------------------
(* The call list and the metrics (storage.py 221-233, main.py 671-806). *)

\* Mutation: the call ids stored under 'unknown' are listed like the others.
RECURSIVE distinct_call_ids_all(_)
distinct_call_ids_all(evs) ==
    IF evs = <<>> THEN <<>>
    ELSE LET last == evs[Len(evs)].call_id
         IN  <<last>> \o distinct_call_ids_all(SelectSeq(evs, LAMBDA e : e.call_id # last))

\* SELECT call_id FROM events WHERE call_id IS NOT NULL AND TRIM(call_id) != ''
\* AND call_id != 'unknown' GROUP BY call_id ORDER BY MAX(id) DESC
RECURSIVE distinct_call_ids(_)
distinct_call_ids(evs) ==
    IF evs = <<>> THEN <<>>
    ELSE LET last == evs[Len(evs)].call_id
             earlier == distinct_call_ids(SelectSeq(evs, LAMBDA e : e.call_id # last))
         IN  IF Strip(last) # <<>> /\ last # <<"unknown">> THEN <<last>> \o earlier ELSE earlier

get_distinct_call_ids == distinct_call_ids(events)

\* Mutation: a build that raises ends the loop over the call ids.
built_records_breaking(evs) ==
    LET call_ids == distinct_call_ids(evs)
        built == [i \in 1..Len(call_ids) |-> BuildRecord(EventsOf(evs, call_ids[i]), call_ids[i])]
        stops == {i \in 1..Len(built) : built[i].status = "raised"}
        kept == IF stops = {} THEN built
                ELSE SubSeq(built, 1, (CHOOSE i \in stops : \A k \in stops : i <= k) - 1)
    IN  SelectSeq(kept, LAMBDA rec : rec.status = "ok")

\* the loop of the three handlers over the call ids: a build that raises or
\* returns None adds nothing
records_of(evs, call_ids) ==
    SelectSeq([i \in 1..Len(call_ids) |-> BuildRecord(EventsOf(evs, call_ids[i]), call_ids[i])],
              LAMBDA rec : rec.status = "ok")

built_records(evs) ==
    CHOOSE records \in {records_of(evs, call_ids) : call_ids \in {distinct_call_ids(evs)}} : TRUE

\* str(v) of a str or a number
StrOf(v) == IF IsStr(v) THEN v.s ELSE NumberText(v)

\* the text the q filter searches, lower-cased
haystack(rec) ==
    LET load == Or(rec.load_matched, EmptyDict)
        prefs == Or(rec.call_search_prefs, EmptyDict)
        field(v) == Lower(StrOf(Or(v, EmptyStr)))
    IN  field(rec.mc_number) \o <<" ">> \o field(rec.carrier_name) \o <<" ">>
        \o field(Get(load, "load_id")) \o <<" ">> \o field(Get(load, "origin")) \o <<" ">>
        \o field(Get(load, "destination")) \o <<" ">> \o field(Get(prefs, "origin_city")) \o <<" ">>
        \o field(Get(prefs, "destination_city")) \o <<" ">> \o field(Get(prefs, "equipment_type"))

\* GET /api/calls over a table of events: q, outcome and sentiment are None
\* or the filter's word
list_calls(evs, q, outcome_filter, sentiment_filter) ==
    SelectSeq(built_records(evs), LAMBDA rec :
        /\ (Truthy(outcome_filter) => Word(rec.outcome) = outcome_filter)
        /\ (Truthy(sentiment_filter) => Word(rec.sentiment) = sentiment_filter)
        /\ (Truthy(q) => Contains(haystack(rec), LowerWord(q.s[1]))))

\* round(num / den) to the nearest integer, ties to even
RoundHalfEven(num, den) ==
    LET whole == num \div den
        rest == num - whole * den
    IN  IF 2 * rest < den THEN whole
        ELSE IF 2 * rest > den THEN whole + 1
        ELSE IF whole % 2 = 0 THEN whole ELSE whole + 1

\* Mutation: the rate is cut to one decimal, not rounded.
rate_tenths_cut(part, total) == IF total = 0 THEN 0 ELSE (part * 1000) \div total

\* round(part / total * 100, 1) if total else 0, in tenths of a percent
rate_tenths(part, total) == IF total = 0 THEN 0 ELSE RoundHalfEven(part * 1000, total)

RECURSIVE SumSeq(_)
SumSeq(seq) == IF seq = <<>> THEN 0 ELSE Head(seq) + SumSeq(Tail(seq))

\* round(sum(xs) / len(xs), 0) if xs else 0, for xs in halves
average_rounded(halves) ==
    IF halves = <<>> THEN 0 ELSE RoundHalfEven(SumSeq(halves), 2 * Len(halves))

Count(seq, Test(_)) == Len(SelectSeq(seq, Test))

\* timedelta(days=1) in ticks
TicksPerDay == 86400 * TicksPerSecond

\* the overview of the records built
overview_of(records, now) ==
    LET rates(r) ==
            [lb |-> safe_number_convert(Or(Get(Or(r.load_matched, EmptyDict), "loadboard_rate"),
                                           Get(Or(r.load_matched, EmptyDict), "rate")), "float"),
             fr |-> safe_number_convert(Get(Or(r.negotiation, EmptyDict), "final_rate"), "float")]
        both == SelectSeq(records, LAMBDA r : ~IsNone(rates(r).lb) /\ ~IsNone(rates(r).fr))
        spreads == [i \in 1..Len(both) |->
                       Max(0, NumHalves(rates(both[i]).fr) - NumHalves(rates(both[i]).lb))]
    IN  [status |-> "overview",
         total_calls |-> Len(records),
         conversion_rate |-> rate_tenths(Count(records, LAMBDA r : r.outcome = "booked"), Len(records)),
         avg_negotiation_spread |-> average_rounded(spreads),
         calls_today |-> Count(records, LAMBDA r : r.timestamp.ticks > now - TicksPerDay),
         call_outcomes |->
             [verified_booked |-> Count(records, LAMBDA r : r.outcome = "booked"),
              verified_no_deal |-> Count(records, LAMBDA r : r.outcome = "no_deal"),
              failed_verification |-> Count(records, LAMBDA r : r.outcome = "failed_verification"),
              dropped_incomplete |-> Count(records, LAMBDA r : r.outcome = "dropped")],
         sentiment_distribution |->
             [label \in {"positive", "neutral", "negative", "frustrated"} |->
                 Count(records, LAMBDA r : r.sentiment = label)]]

\* GET /api/metrics/overview over a table of events, read at the tick now
metrics_overview(evs, now) ==
    CHOOSE overview \in {overview_of(records, now) : records \in {built_records(evs)}} : TRUE

\* the listed rate of a record's load, else a rate of its negotiation, else 0
_effective_loadboard_rate(load, neg) ==
    LET lb == Or(safe_number_convert(Or(Get(load, "loadboard_rate"), Get(load, "rate")), "float"),
                 PyInt(0))
    IN  IF NumHalves(lb) > 0 THEN lb
        ELSE Or(safe_number_convert(
                    Or(Or(Or(Get(neg, "loadboard_rate"), Get(neg, "original_rate")),
                          Get(neg, "initial_offer")), Get(neg, "final_rate")), "float"),
                PyInt(0))

\* sorted(records, key=timestamp): stable, earliest first
RECURSIVE SortByTimestamp(_)
SortByTimestamp(records) ==
    IF records = <<>> THEN <<>>
    ELSE LET first == CHOOSE i \in 1..Len(records) :
                          \A k \in 1..Len(records) :
                              \/ records[i].timestamp.ticks < records[k].timestamp.ticks
                              \/ (records[i].timestamp.ticks = records[k].timestamp.ticks /\ i <= k)
         IN  <<records[first]>> \o SortByTimestamp(RemoveAt(records, first))

Reverse(seq) == [i \in 1..Len(seq) |-> seq[Len(seq) + 1 - i]]

\* chart_points[-24:] and sorted(...)[:12]
ChartPoints == 24
RecentNegotiations == 12

\* the negotiation metric of the records that have a negotiation and a load
negotiations_of(records) ==
    LET total == Len(records)
        successes == Count(records, LAMBDA r : Truthy(Get(r.negotiation, "agreed")))
        fr(r) == safe_number_convert(Get(r.negotiation, "final_rate"), "float")
        lb(r) == _effective_loadboard_rate(r.load_matched, r.negotiation)
        priced(r) == ~IsNone(fr(r)) /\ NumHalves(lb(r)) > 0
        known == SelectSeq(records, priced)
        charted == SelectSeq(SortByTimestamp(records), priced)
        latest == SubSeq(Reverse(SortByTimestamp(Reverse(records))), 1,
                         IF total < RecentNegotiations THEN total ELSE RecentNegotiations)
    IN  [status |-> "negotiations",
         total_negotiations |-> total,
         success_rate |-> rate_tenths(successes, total),
         avg_discount |-> average_rounded([i \in 1..Len(known) |->
                              NumHalves(fr(known[i])) - NumHalves(lb(known[i]))]),
         chart_points |->
             LET points == [i \in 1..Len(charted) |->
                               [date |-> charted[i].timestamp.ticks \div TicksPerDay,
                                loadboard_rate |-> lb(charted[i]), final_rate |-> fr(charted[i])]]
             IN  SubSeq(points, Max(1, Len(points) - ChartPoints + 1), Len(points)),
         recent_negotiations |->
             [i \in 1..Len(latest) |->
                 [date |-> latest[i].timestamp.ticks \div TicksPerSecond,
                  load_id |-> Or(Get(latest[i].load_matched, "load_id"), Word(EmDash)),
                  lane |-> <<GetDefault(latest[i].load_matched, "origin", EmptyStr),
                             GetDefault(latest[i].load_matched, "destination", EmptyStr)>>,
                  loadboard_rate |-> lb(latest[i]),
                  final_rate |-> Or(fr(latest[i]), PyInt(0)),
                  spread |-> Max(0, NumHalves(Or(fr(latest[i]), PyInt(0))) - NumHalves(lb(latest[i]))),
                  rounds |-> Or(Get(latest[i].negotiation, "rounds"), PyInt(0)),
                  outcome |-> IF Truthy(Get(latest[i].negotiation, "agreed"))
                              THEN "agreed" ELSE "declined"]]]

\* GET /api/metrics/negotiations over a table of events
metrics_negotiations(evs) ==
    CHOOSE metric \in
        {negotiations_of(records) :
            records \in {SelectSeq(built_records(evs),
                             LAMBDA r : Truthy(r.negotiation) /\ Truthy(r.load_matched))}} : TRUE

\* GET /api/calls, GET /api/metrics/overview, GET /api/metrics/negotiations
api_list_calls(q, outcome_filter, sentiment_filter) ==
    /\ resp' = [call_id |-> <<>>,
                result |-> [status |-> "list",
                            filters |-> <<q, outcome_filter, sentiment_filter>>,
                            records |-> list_calls(events, q, outcome_filter, sentiment_filter)]]
    /\ UNCHANGED <<events, carrier_profiles, call_search_prefs, inflight, norm, upserts>>

api_metrics_overview ==
    /\ resp' = [call_id |-> <<>>, result |-> metrics_overview(events, Now(1))]
    /\ UNCHANGED <<events, carrier_profiles, call_search_prefs, inflight, norm, upserts>>

api_metrics_negotiations ==
    /\ resp' = [call_id |-> <<>>, result |-> metrics_negotiations(events)]
    /\ UNCHANGED <<events, carrier_profiles, call_search_prefs, inflight, norm, upserts>>

-----------------------------------------------------------------------------
(* The handoff email (main.py 562-631). *)

\* str(v) inside an f-string; the text of a list or a mapping is one token
Text(v) ==
    CASE IsStr(v) /\ v.j = <<>> -> v.s
      [] v.t \in {"int", "float"} -> NumberText(v)
      [] v.t = "bool" -> IF v.n = 1 THEN <<"True">> ELSE <<"False">>
      [] v.t = "null" -> <<"None">>
      [] v.t = "inf" -> <<"inf">>
      [] OTHER -> <<"{..}">>

\* the digits of a natural number with a comma between groups of three
Pad3(k) == <<Digits[(k \div 100) + 1], Digits[((k \div 10) % 10) + 1], Digits[(k % 10) + 1]>>
RECURSIVE Grouped(_)
Grouped(k) == IF k < 1000 THEN DigitsOf(k) ELSE Grouped(k \div 1000) \o <<",">> \o Pad3(k % 1000)

\* f"${rate:,.0f}"; FormatError stands for the ValueError or TypeError of a
\* value that is no number
FormatError == <<"FormatError">>
Money(rate) ==
    IF ~IsNumber(rate) THEN FormatError
    ELSE IF rate.t = "inf" THEN <<"$", "inf">>
    ELSE LET whole == RoundHalfEven(NumHalves(rate), 2) IN
         <<"$">> \o (IF NumHalves(rate) < 0 THEN <<"-">> ELSE <<>>)
                \o Grouped(IF whole < 0 THEN -whole ELSE whole)

\* str.capitalize() of a sentiment
Capitalize(word) ==
    CASE word = "positive" -> "Positive"
      [] word = "neutral" -> "Neutral"
      [] word = "negative" -> "Negative"
      [] word = "frustrated" -> "Frustrated"
      [] OTHER -> word

CarrierSection == <<EmDash, " Carrier ", EmDash>>
OutcomeSection == <<EmDash, " Outcome ", EmDash>>
LoadSection == <<EmDash, " Load ", EmDash>>
NegotiationSection == <<EmDash, " Negotiation ", EmDash>>

\* the subject and the lines of the body, given the text of the final rate;
\* status raised stands for the AttributeError of a load or a negotiation
\* that is no mapping and for the error of a rate that cannot be formatted
handoff_email(rec, final_text) ==
    LET call_id == IF rec.id # <<>> THEN rec.id ELSE <<"unknown">>
        carrier == Text(Or(rec.carrier_name, Word("Unknown")))
        mc == Text(Or(rec.mc_number, Word(EmDash)))
        outcome_text == IF rec.outcome # "" THEN rec.outcome ELSE EmDash
        sentiment == Capitalize(IF rec.sentiment # "" THEN rec.sentiment ELSE EmDash)
        load == Or(rec.load_matched, EmptyDict)
        neg == Or(rec.negotiation, EmptyDict)
        field(name) == Text(Or(Get(load, name), Word(EmDash)))
        lane == IF Truthy(load) THEN field("origin") \o <<" -> ">> \o field("destination")
                ELSE <<EmDash>>
        rate == Or(Or(Get(load, "loadboard_rate"), Get(neg, "final_rate")),
                   Get(neg, "initial_offer"))
        rate_str == IF ~IsNone(rate) THEN Money(rate) ELSE <<EmDash>>
        duration == rec.call_duration_seconds
        duration_str == IF duration >= 0
                        THEN DigitsOf(duration \div 60) \o <<"m", " ">> \o DigitsOf(duration % 60) \o <<"s">>
                        ELSE <<EmDash>>
        reasoning == Text(Or(rec.sentiment_reasoning, Word("No reasoning provided.")))
        verification == IF rec.verification_status # "" THEN rec.verification_status ELSE EmDash
    IN  IF \/ ~IsDict(load)
           \/ ~IsDict(neg)
           \/ rate_str = FormatError
           \/ final_text = FormatError
        THEN Raised
        ELSE [status |-> "handoff",
              rec |-> rec,
              subject |-> <<"Call handoff: ">> \o carrier \o <<" (", outcome_text, ") ", EmDash, " ">>
                          \o call_id,
              body |-> <<
                  <<"Call handoff summary ", EmDash, " ">> \o call_id,
                  <<>>,
                  CarrierSection,
                  <<"Carrier: ">> \o carrier,
                  <<"MC#: ">> \o mc,
                  <<"Verification: ", verification>>,
                  <<>>,
                  OutcomeSection,
                  <<"Outcome: ", outcome_text>>,
                  <<"Sentiment: ", sentiment>>,
                  <<"Duration: ">> \o duration_str,
                  <<"Reasoning: ">> \o reasoning,
                  <<>>,
                  LoadSection,
                  <<"Lane: ">> \o lane,
                  <<"Load ID: ">> \o field("load_id"),
                  <<"Rate: ">> \o rate_str,
                  <<"Equipment: ">> \o field("equipment_type"),
                  <<"Pickup: ">> \o field("pickup_datetime"),
                  <<"Delivery: ">> \o field("delivery_datetime"),
                  <<>>,
                  NegotiationSection,
                  <<"Rounds: ">> \o Text(Or(Get(neg, "rounds"), PyInt(0))),
                  <<"Final rate: ">> \o final_text,
                  <<"Agreed: ">> \o Text(Get(neg, "agreed")),
                  <<>>,
                  <<"View full details in the Call Log.">> >>]

\* Mutation: the final rate is formatted also when it is None.
_format_handoff_email_unguarded(rec) ==
    handoff_email(rec, Money(Get(Or(rec.negotiation, EmptyDict), "final_rate")))

_format_handoff_email(rec) ==
    LET final_rate == Get(Or(rec.negotiation, EmptyDict), "final_rate") IN
    handoff_email(rec, IF ~IsNone(final_rate) THEN Money(final_rate) ELSE <<EmDash>>)

\* the answer to a call id that is blank or a placeholder
HandoffExample ==
    [status |-> "example",
     call_id |-> <<"call_example">>,
     subject |-> <<"Call handoff: ", "Example Carrier", " (", "booked", ") ", EmDash, " ",
                   "call_example">>]

\* the answer for a call without events
HandoffNotFound(call_id) ==
    [status |-> "not_found",
     subject |-> <<"Call handoff: (call not found) ", EmDash, " ">> \o call_id,
     body |-> << <<"Call handoff summary ", EmDash, " ">> \o call_id, <<>>,
                 <<"No call record found for this call_id yet">> >>]

\* GET /handoff_summary/{call_id}
handoff_summary(call_id) ==
    /\ resp' = [call_id |-> call_id,
                result |->
                    IF \/ Strip(call_id) = <<>>
                       \/ Lower(Strip(call_id)) \in {<<"schema">>, <<"example">>, <<"_">>}
                    THEN HandoffExample
                    ELSE CHOOSE answer \in
                             {IF rec.status = "raised" THEN Raised
                              ELSE IF rec.status = "absent" THEN HandoffNotFound(call_id)
                              ELSE _format_handoff_email(rec) :
                                  rec \in {_build_call_record(call_id)}} : TRUE]
    /\ UNCHANGED <<events, carrier_profiles, call_search_prefs, inflight, norm, upserts>>

-----------------------------------------------------------------------------
(* The payload normalizer on its own: a base value, wrapped in layers of    *)
(* JSON encoding, then normalized.                                          *)

norm_encode ==
    /\ ~norm.called
    /\ norm.layers < MaxLayers
    /\ norm' = [norm EXCEPT !.raw = json_dumps(norm.raw), !.layers = norm.layers + 1]
    /\ UNCHANGED <<events, carrier_profiles, call_search_prefs, inflight, resp, upserts>>

norm_call ==
    /\ ~norm.called
    /\ norm' = [norm EXCEPT !.called = TRUE, !.out = payload_as_dict_run(norm.raw, 0)]
    /\ UNCHANGED <<events, carrier_profiles, call_search_prefs, inflight, resp, upserts>>

-----------------------------------------------------------------------------
(* Requests of the model. *)

Call1 == <<"c1">>
Call2 == <<"c2">>

Item(k, v) == [x \in {k} |-> v]
Dict1(k, v) == PyDict(Item(k, v))
Ev(event_type, payload) == [event_type |-> event_type, payload |-> payload]

VerifyPayloads ==
    {Dict1("eligible", PyBool(TRUE)), Dict1("eligible", PyBool(FALSE)),
     Dict1("eligible", Word("true")), Dict1("eligible", PyInt(1)),
     Dict1("eligible", PyInt(0)), Dict1("eligible", PyNone), EmptyDict}

NegotiationPayloads ==
    {EmptyDict, Dict1("accepted", PyBool(TRUE)), Dict1("accepted", PyBool(FALSE)),
     Dict1("accepted", Word("true")), Dict1("accepted", Word("True")),
     Dict1("accepted", PyInt(1)), Dict1("accepted", PyFloat(2)),
     Dict1("accepted", Word("yes")), Dict1("accepted", Word("TRUE")),
     Dict1("accepted", PyNone)}

LoadL1 == PyDict([load_id |-> Word("L1"), origin |-> Word("LA"), destination |-> Word("NY")])

QuotedType(name) == <<Quote, name, Quote>>

\* the requests of the record specification: one call
RecordLog ==
    {Ev(<<"verify_mc_result">>, p) : p \in VerifyPayloads}
    \cup {Ev(<<"negotiation_complete">>, p) : p \in NegotiationPayloads}
    \cup {Ev(QuotedType("negotiation_complete"), Dict1("accepted", PyBool(TRUE))),
          Ev(<<"best_load_retrieved">>, LoadL1)}

DurationPayloads ==
    {EmptyDict,
     Dict1("call_duration_seconds", PyInt(90)),
     Dict1("call_duration_seconds", PyInt(0)),
     Dict1("call_duration_seconds", PyInt(-5)),
     Dict1("call_duration_seconds", PyStr(<<"9", "0">>)),
     Dict1("call_duration_seconds", PyStr(<<" ", "7", " ">>)),
     Dict1("call_duration_seconds", Word("abc")),
     Dict1("call_duration_seconds", PyStr(<<"1", ".", "5">>)),
     Dict1("call_duration_seconds", PyFloat(3)),
     Dict1("call_duration_seconds", PyInf),
     Dict1("call_duration_seconds", PyNone)}

\* the requests of the duration specification: one call, a clock that may
\* step back
DurationLog ==
    {Ev(<<"call_classified">>, p) : p \in DurationPayloads}
    \cup {Ev(QuotedType("call_classified"), EmptyDict), Ev(<<"loads_found">>, Dict1("count", PyInt(3)))}
DurationSteps == {-1, 3}

\* the requests of the main specification: two calls
Calls == {Call1, Call2}
MainLog ==
    {Ev(<<"negotiation_complete">>, Dict1("accepted", PyBool(TRUE))),
     Ev(QuotedType("negotiation_complete"), EmptyDict),
     Ev(<<Quote, Quote>>, Dict1("note", Word("x"))),
     Ev(<<"negotiation_complete">>, PyNone)}
MainOutput ==
    {Ev(<<"verify_mc_result">>, Word("hello")),
     Ev(<<"sentiment_classified">>, json_dumps(Dict1("sentiment", Word("Positive"))))}
MainPrefs == {Item("origin_city", Word("LA")), Item("weight_capacity", PyStr(<<"4", "5">>))}
McNumbers == {<<"MC", "-", "7">>}
WebKeys == {<<>>, <<"key">>}

CarrierRaw(allowed) ==
    PyDict([legalName |-> Word("Acme"), dotNumber |-> PyInt(9), allowedToOperate |-> Word(allowed),
            phyCity |-> Word("Reno"), phyState |-> Word("NV")])
FmcsaResponses ==
    {[kind |-> k, carrier_raw |-> PyNone] : k \in {"404", "status", "empty", "exception"}}
    \cup {[kind |-> "found", carrier_raw |-> CarrierRaw(a)] : a \in {"Y", "N"}}

\* the requests of the load specification: one call, loads and rates in
\* negotiation_complete and best_load_retrieved, values of negotiation_rounds
LoadNegotiations ==
    {EmptyDict,
     PyDict([load_id |-> Word("L1"), original_rate |-> PyInt(-5), final_price |-> PyInt(1200)]),
     PyDict([load_id |-> Word("L1"), final_price |-> PyInt(1200)]),
     PyDict([origin |-> Word("LA"), loadboard_rate |-> PyInt(1200)]),
     PyDict([origin |-> Word("LA"), original_rate |-> PyInt(900), notes |-> Word("n1")]),
     PyDict([destination |-> Word("SF"), accepted |-> PyBool(TRUE)]),
     PyDict([loadboard_rate |-> PyInt(1200), final_price |-> PyInt(1300)]),
     PyDict([load_id |-> Word("L1"), loadboard_rate |-> Word("abc"), final_rate |-> PyInt(0)])}
RoundsValues ==
    {PyInt(2), PyInt(-3), PyFloat(5), PyStr(<<" ", "4", " ">>), Word("x"), PyBool(TRUE),
     PyList(<<PyInt(1)>>)}
LoadsRetrieved ==
    {PyDict([load_id |-> Word("L9"), destination |-> Word("NY"), rate |-> PyInt(500)]),
     PyDict([destination |-> Word("NY"), rate |-> PyInt(500)]),
     PyDict([load_id |-> Word("L9"), rate |-> Word("abc"), notes |-> Word("n9")]),
     PyDict([origin |-> Word("RN"), loadboard_rate |-> PyInt(0), weight |-> PyStr(<<"4", "5">>)])}
LoadLog ==
    {Ev(<<"negotiation_complete">>, p) : p \in LoadNegotiations}
    \cup {Ev(<<"negotiation_complete">>, Dict1("negotiation_rounds", v)) : v \in RoundsValues}
    \cup {Ev(<<"best_load_retrieved">>, p) : p \in LoadsRetrieved}

\* the updates of the upsert specification
McKeys == {<<"7">>, <<"8">>}
ProfileUpdates ==
    {[dot_number |-> PyInt(9), legal_name |-> Word("Acme"), physical_city |-> Word("Reno"),
      physical_state |-> PyNone],
     [dot_number |-> PyNone, legal_name |-> Word("Bolt"), physical_city |-> PyNone,
      physical_state |-> Word("NV")],
     [origin_radius_miles |-> PyNone, legal_name |-> Word("X")],
     Item("origin_radius_miles", PyInt(75))}
PrefsUpdates ==
    {[origin_city |-> Word("LA"), weight_capacity |-> Word("abc")],
     [origin_city |-> PyNone, weight_capacity |-> PyInt(45), min_temp |-> PyInt(5)],
     Item("weight_capacity", PyStr(<<"4", "6">>)),
     <<>>}

\* the requests of the isolation specification: call ids with and without
\* surrounding whitespace, a verification result that names an MC number but
\* no carrier, loads with and without load_id
IsolationCallIds == {Call1, Call2, <<" ", "c1">>}
IsolationLog ==
    {Ev(<<"verify_mc_result">>, Dict1("mc_number", PyStr(<<"7">>))),
     Ev(<<"negotiation_complete">>, Dict1("accepted", PyBool(TRUE)))}
IsolationPrefs == {Item("origin_city", Word("LA"))}
IsolationLoads ==
    {[load_id |-> Word("L1"), loadboard_rate |-> PyFloat(2400), notes |-> PyNone],
     Item("notes", Word("n1"))}
IsolationResponses ==
    {[kind |-> "404", carrier_raw |-> PyNone], [kind |-> "found", carrier_raw |-> CarrierRaw("Y")]}

\* the requests of the aggregation specification, by call id: negotiations
\* with both rates, without a final rate and declined, a verification result
\* that is not a dict; the first also under a third and under a blank call
\* id; the filters of the call list
AggregateOutput ==
    LET both == Ev(<<"negotiation_complete">>,
                   PyDict([load_id |-> Word("L1"), loadboard_rate |-> PyInt(1000),
                           final_price |-> PyInt(1200), accepted |-> PyBool(TRUE)]))
        no_final == Ev(<<"negotiation_complete">>,
                       PyDict([load_id |-> Word("L2"), accepted |-> PyBool(TRUE)]))
        declined == Ev(<<"negotiation_complete">>,
                       PyDict([origin |-> Word("LA"), loadboard_rate |-> PyInt(1000),
                               final_price |-> PyInt(900), accepted |-> PyBool(FALSE)]))
        not_a_dict == Ev(<<"verify_mc_result">>, Word("hello"))
    IN  [c \in {Call1, Call2, <<"c3">>, <<" ">>} |->
            IF c = Call1 THEN {both, no_final, declined, not_a_dict}
            ELSE IF c = Call2 THEN {both, declined}
            ELSE {both}]
ListFilters ==
    {[q |-> PyNone, outcome |-> PyNone, sentiment |-> PyNone],
     [q |-> Word("L1"), outcome |-> PyNone, sentiment |-> PyNone],
     [q |-> PyNone, outcome |-> Word("booked"), sentiment |-> Word("neutral")]}

\* what arrives in a sentiment field: labels, and values that are no str
SentimentValues ==
    {Word("Positive"), PyStr(<<"Really", " ", "positive">>), PyStr(<<" ", "neutral", " ">>),
     Word("negatively"), Word("frustrating"), Word("angry"), Word("hello"),
     PyStr(<<"negative", " ", "Positive">>),
     PyStr(<<" ">>), EmptyStr, PyNone, PyInt(0), PyInt(5), PyFloat(3), PyBool(TRUE),
     PyList(<<>>), PyList(<<Word("angry")>>), Dict1("label", Word("positive"))}

\* the requests of the sentiment specification: one call
SentimentLog ==
    {Ev(<<"sentiment_classified">>, Dict1("sentiment", v)) : v \in SentimentValues}
    \cup {Ev(<<"sentiment_classified">>, Dict1("sentiment_classification", Word("unprofessional"))),
          Ev(<<"call_classified">>, Dict1("sentiment", Word("Impatient"))),
          Ev(<<"call_classified">>, Dict1("sentiment", PyInt(5)))}

\* the requests of the label specification: one call, payloads that hold a
\* sentiment under several names and a reasoning at several depths
LabelLog ==
    {Ev(<<"sentiment_classified">>,
        PyDict([sentiment_classification |-> Word("Positive"), sentiment |-> Word("angry")])),
     Ev(<<"sentiment_classified">>,
        PyDict([sentiment_classification |-> EmptyStr, sentiment |-> Word("angry"),
                reasoning |-> PyStr(<<" ">>), why |-> PyStr(<<" ", "w", " ">>),
                data |-> Dict1("reason", Word("d"))])),
     Ev(<<"sentiment_classified">>,
        PyDict([sentiment |-> EmptyStr, reasoning |-> PyInt(5), data |-> Dict1("why", Word("dw")),
                payload |-> PyJsonText(Dict1("reason", Word("p")))])),
     Ev(<<"sentiment_classified">>, Dict1("data", Dict1("body", Dict1("reasoning", Word("two"))))),
     Ev(<<"sentiment_classified">>, Word("hello")),
     Ev(<<"call_classified">>, PyDict([sentiment |-> Word("negative"), reasoning |-> Word("cc")])),
     Ev(<<"call_classified">>, Dict1("body", Dict1("explanation", Word("ccn")))),
     Ev(<<"loads_found">>, Dict1("count", PyInt(3)))}

\* the requests of the handoff specification: one call with a load or none,
\* a negotiation or none, a final rate or none, rates of zero, a reasoning or
\* none; the call ids a summary is asked for
HandoffLog ==
    {Ev(<<"negotiation_complete">>, Dict1("accepted", PyBool(TRUE))),
     Ev(<<"negotiation_complete">>, PyDict([load_id |-> Word("L1"), final_price |-> PyInt(1200)])),
     Ev(<<"negotiation_complete">>,
        PyDict([load_id |-> Word("L1"), loadboard_rate |-> Word("abc"), final_rate |-> PyInt(0)])),
     Ev(<<"best_load_retrieved">>, PyDict([load_id |-> Word("L9"), rate |-> PyFloat(2001)])),
     Ev(<<"verify_mc_result">>,
        PyDict([eligible |-> PyBool(TRUE), carrier |-> Dict1("name", Word("Acme"))])),
     Ev(<<"verify_mc_result">>, Word("hello")),
     Ev(<<"sentiment_classified">>, PyDict([sentiment |-> Word("angry"), reasoning |-> Word("r")]))}
HandoffCallIds == {Call1, Call2, <<" ", "schema">>}

\* the requests of the carrier specification: one call whose verification
\* names the carrier or not and gives an MC number or not, and the legal name
\* stored for the MC number 7
CarrierLog ==
    {Ev(<<"verify_mc_result">>, Dict1("carrier", PyDict([name |-> Word("Bolt"), mc_number |-> Word("7")]))),
     Ev(<<"verify_mc_result">>, Dict1("carrier", Dict1("mc_number", Word("7")))),
     Ev(<<"verify_mc_result">>, Dict1("eligible", PyBool(TRUE))),
     Ev(<<"verify_mc_result">>, Dict1("mc_number", PyInt(7))),
     Ev(<<"verify_mc_requested">>, Dict1("mc_number", Word("7")))}
CarrierNames == {Item("legal_name", Word("Acme")), Item("legal_name", EmptyStr)}

\* the requests of the logging specification: call ids and event types that
\* are missing, blank, padded or plain, and a payload or none
LogCallIds == {<<>>, <<" ">>, <<" ", "c1", " ">>, Call1}
LogTypes == {<<>>, <<" ">>, <<" ", "note", " ">>, <<"note">>}
LogPayloads == {PyNone, EmptyDict, Dict1("a", PyInt(1))}

\* the upserts of the race specification: two fields of one carrier profile
\* and two fields of the preferences of one call
RaceUpserts ==
    {Upsert("mc_number", <<"7">>, Item("legal_name", Word("Acme"))),
     Upsert("mc_number", <<"7">>, Item("physical_city", Word("Reno"))),
     Upsert("call_id", Call1, Item("origin_city", Word("LA"))),
     Upsert("call_id", Call1, Item("notes", Word("n1")))}

NormBases ==
    {PyNone, EmptyStr, Word("hello"), PyStr(<<" ">>), EmptyDict,
     Dict1("a", PyInt(1)), Dict1("payload", Dict1("a", PyInt(1))),
     PyList(<<PyInt(1)>>), PyList(<<>>), PyInt(5), PyFloat(3), PyBool(TRUE), PyBool(FALSE),
     PyStr(<<"9", "0">>), Word("null"), Word("true"), PyStr(<<Quote, "x", Quote>>)}

-----------------------------------------------------------------------------
(* Specifications. *)

Init ==
    /\ events = <<>>
    /\ carrier_profiles = <<>>
    /\ call_search_prefs = <<>>
    /\ inflight = <<>>
    /\ resp = NoResp
    /\ norm = NormIdle
    /\ upserts = <<>>

LogEvent == \E c \in Calls, e \in MainLog : log_event(c, e.event_type, e.payload, 1)
CallOutput == \E c \in Calls, e \in MainOutput : call_output(c, e.event_type, e.payload, 1)
VerifyMcRequest == \E c \in Calls, mc \in McNumbers, k \in WebKeys : verify_mc_request(c, mc, k, 1)
VerifyMcResponse == \E i \in 1..Len(inflight), r \in FmcsaResponses : verify_mc_response(i, r, 1)
SetCallSearchPrefs == \E c \in Calls, f \in MainPrefs : set_call_search_prefs(c, f, 1)
ApiGetCall == \E c \in Calls : api_get_call(c)

Next ==
    \/ LogEvent
    \/ CallOutput
    \/ VerifyMcRequest
    \/ VerifyMcResponse
    \/ SetCallSearchPrefs
    \/ ApiGetCall

Spec == Init /\ [][Next]_vars

\* the record of one call, over the payloads of verification and negotiation
RecordLogEvent == \E e \in RecordLog : log_event(Call1, e.event_type, e.payload, 1)
RecordGetCall == api_get_call(Call1)
NextRecord == RecordLogEvent \/ RecordGetCall
SpecRecord == Init /\ [][NextRecord]_vars

\* the duration of one call, over reported durations and clock steps
DurationLogEvent ==
    \E e \in DurationLog, step \in DurationSteps : log_event(Call1, e.event_type, e.payload, step)
DurationGetCall == api_get_call(Call1)
NextDuration == DurationLogEvent \/ DurationGetCall
SpecDuration == Init /\ [][NextDuration]_vars

\* the matched load and the negotiation of one call
LoadLogEvent == \E e \in LoadLog : log_event(Call1, e.event_type, e.payload, 1)
LoadGetCall == api_get_call(Call1)
NextLoad == LoadLogEvent \/ LoadGetCall
SpecLoad == Init /\ [][NextLoad]_vars

\* the two tables under sequences of upserts
\* upsert_carrier_profile and upsert_call_search_prefs called directly
UpsertCarrierProfile ==
    \E mc_number \in McKeys, updates \in ProfileUpdates :
        /\ Len(upserts) < MaxUpserts
        /\ carrier_profiles' = upsert_carrier_profile(mc_number, updates, Now(1))
        /\ upserts' = Append(upserts, Upsert("mc_number", mc_number, updates))
        /\ resp' = NoResp
        /\ UNCHANGED <<events, call_search_prefs, inflight, norm>>
UpsertCallSearchPrefs ==
    \E call_id \in Calls, updates \in PrefsUpdates :
        /\ Len(upserts) < MaxUpserts
        /\ call_search_prefs' = upsert_call_search_prefs(call_id, updates, Now(1))
        /\ upserts' = Append(upserts, Upsert("call_id", call_id, updates))
        /\ resp' = NoResp
        /\ UNCHANGED <<events, carrier_profiles, inflight, norm>>
NextUpsert == UpsertCarrierProfile \/ UpsertCallSearchPrefs
SpecUpsert == Init /\ [][NextUpsert]_vars

\* the operations made under one call id: logging events, setting
\* preferences, verifying a carrier, submitting a load
UnderCallId(d) ==
    \/ \E e \in IsolationLog : log_event(d, e.event_type, e.payload, 1)
    \/ \E fields \in IsolationPrefs : set_call_search_prefs(d, fields, 1)
    \/ \E mc \in McNumbers : verify_mc_request(d, mc, <<"key">>, 1)
    \/ \E i \in 1..Len(inflight), r \in IsolationResponses :
            inflight[i].cid = _effective_call_id(d) /\ verify_mc_response(i, r, 1)
    \/ \E load \in IsolationLoads : submit_load(d, load, 1)
NextIsolation == \E d \in IsolationCallIds : UnderCallId(d)
SpecIsolation == Init /\ [][NextIsolation]_vars

\* the call list and the metrics over the events of several calls
AggregateCallOutput ==
    \E c \in DOMAIN AggregateOutput : \E e \in AggregateOutput[c] :
        call_output(c, e.event_type, e.payload, 1)
ApiListCalls == \E f \in ListFilters : api_list_calls(f.q, f.outcome, f.sentiment)
NextAggregate ==
    AggregateCallOutput \/ ApiListCalls \/ api_metrics_overview \/ api_metrics_negotiations
SpecAggregate == Init /\ [][NextAggregate]_vars

\* the sentiment of one call, over the values of the sentiment fields
SentimentLogEvent == \E e \in SentimentLog : log_event(Call1, e.event_type, e.payload, 1)
SentimentGetCall == api_get_call(Call1)
\* the label and the reasoning of one call
LabelLogEvent == \E e \in LabelLog : log_event(Call1, e.event_type, e.payload, 1)
LabelGetCall == api_get_call(Call1)
NextLabel == LabelLogEvent \/ LabelGetCall
SpecLabel == Init /\ [][NextLabel]_vars

\* the handoff email of one call
HandoffLogEvent == \E e \in HandoffLog : log_event(Call1, e.event_type, e.payload, 3)
HandoffSummary == \E c \in HandoffCallIds : handoff_summary(c)
NextHandoff == HandoffLogEvent \/ HandoffSummary
SpecHandoff == Init /\ [][NextHandoff]_vars

\* the carrier of one call, over verification payloads and stored profiles
CarrierLogEvent == \E e \in CarrierLog : log_event(Call1, e.event_type, e.payload, 1)
CarrierUpsert ==
    \E updates \in CarrierNames :
        /\ Len(upserts) < MaxUpserts
        /\ carrier_profiles' = upsert_carrier_profile(<<"7">>, updates, Now(1))
        /\ upserts' = Append(upserts, Upsert("mc_number", <<"7">>, updates))
        /\ resp' = NoResp
        /\ UNCHANGED <<events, call_search_prefs, inflight, norm>>
CarrierGetCall == api_get_call(Call1)
NextCarrier == CarrierLogEvent \/ CarrierUpsert \/ CarrierGetCall
SpecCarrier == Init /\ [][NextCarrier]_vars

\* verifications that overlap: a request is answered at once without a web
\* key, and waits for the FMCSA response with one
VerifyRequest ==
    \E c \in Calls, mc \in McNumbers, k \in WebKeys :
        verify_mc_request_within(c, mc, k, 1, MaxVerifyEvents)
VerifyResponse == \E i \in 1..Len(inflight), r \in FmcsaResponses : verify_mc_response(i, r, 1)
NextVerify == VerifyRequest \/ VerifyResponse
\* the event loop resumes every request that awaits; the client's timeout
\* ends every wait
SpecVerify == Init /\ [][NextVerify]_vars /\ WF_vars(VerifyResponse)

\* POST /log_event on its own
LogRequest == \E c \in LogCallIds, t \in LogTypes, p \in LogPayloads : log_event(c, t, p, 1)
SpecLog == Init /\ [][LogRequest]_vars

\* upserts whose checks and writes interleave
UpsertCheck == \E u \in RaceUpserts : upsert_check(u)
UpsertWrite == \E i \in 1..Len(inflight) : upsert_write(i)
NextRace == UpsertCheck \/ UpsertWrite
SpecRace == Init /\ [][NextRace]_vars

NextSentiment == SentimentLogEvent \/ SentimentGetCall
SpecSentiment == Init /\ [][NextSentiment]_vars

\* the payload normalizer over its inputs
InitNorm ==
    /\ events = <<>>
    /\ carrier_profiles = <<>>
    /\ call_search_prefs = <<>>
    /\ inflight = <<>>
    /\ resp = NoResp
    /\ norm \in {[raw |-> b, base |-> b, layers |-> 0, called |-> FALSE,
                  out |-> [value |-> PyNone, depth |-> 0]] : b \in NormBases}
    /\ upserts = <<>>
NextNorm == norm_encode \/ norm_call
SpecNorm == InitNorm /\ [][NextNorm]_vars

-----------------------------------------------------------------------------
(* What the claims speak of: the response of the last GET /api/calls and    *)
(* the events it was built from (a write discards the response).            *)

Built == resp.result
BuiltOk == resp.result.status = "ok"
CallEvents == EventsOf(events, resp.call_id)

\* the events of a type, compared after stripping whitespace and quotes
HasType(evs, name) == \E i \in 1..Len(evs) : EventKey(evs[i]) = <<name>>
LatestIndex(evs, name) ==
    CHOOSE i \in 1..Len(evs) :
        EventKey(evs[i]) = <<name>> /\ \A m \in (i + 1)..Len(evs) : EventKey(evs[m]) # <<name>>
\* the payload that was logged with the latest event of a type, None without one
LatestPayload(evs, name) ==
    IF HasType(evs, name) THEN json_loads(evs[LatestIndex(evs, name)].payload).value ELSE PyNone
\* a field of that payload, None when the payload is no mapping
LatestField(evs, name, field) ==
    IF IsDict(LatestPayload(evs, name)) THEN Get(LatestPayload(evs, name), field) ELSE PyNone

TrueLiterals == {PyBool(TRUE), Word("true"), Word("True")}

(* C1: the outcome follows the decision table: failed_verification when the
   latest verify_mc_result has eligible false; otherwise dropped when the call
   has no negotiation_complete event at all; otherwise booked when the latest
   negotiation_complete is accepted; otherwise no_deal. *)
C1_OutcomeDecisionTable ==
    BuiltOk =>
        Built.outcome =
            IF LatestField(CallEvents, "verify_mc_result", "eligible") = PyBool(FALSE)
            THEN "failed_verification"
            ELSE IF ~HasType(CallEvents, "negotiation_complete") THEN "dropped"
            ELSE IF accepted(LatestPayload(CallEvents, "negotiation_complete")) THEN "booked"
            ELSE "no_deal"

(* C2: verification_status is failed iff eligible of the latest
   verify_mc_result is exactly false, verified iff exactly true, pending for
   every other value; fmcsa_verified is true iff the status is verified. *)
C2_VerificationStatus ==
    BuiltOk =>
        LET eligible == LatestField(CallEvents, "verify_mc_result", "eligible") IN
        /\ Built.verification_status \in {"failed", "verified", "pending"}
        /\ Built.verification_status = "failed" <=> (eligible.t = "bool" /\ eligible.n = 0)
        /\ Built.verification_status = "verified" <=> (eligible.t = "bool" /\ eligible.n = 1)
        /\ Built.fmcsa_verified <=> Built.verification_status = "verified"

C2_Witness ==
    /\ BuiltOk
    /\ LatestField(CallEvents, "verify_mc_result", "eligible") = PyInt(0)
    /\ Built.verification_status = "pending"
    /\ \E i \in 1..Len(CallEvents) :
          /\ i < LatestIndex(CallEvents, "verify_mc_result")
          /\ json_loads(CallEvents[i].payload).value = Dict1("eligible", PyBool(FALSE))

(* C3: build completes and returns a record for every stored event sequence,
   also when a payload is a JSON-encoded string or another non-mapping:
   malformed input never makes build fail. *)
C3_BuildNeverFails == Built.status # "raised"

(* C4: build returns the absent result exactly when the event store holds no
   event for the call id. *)
C4_AbsentIffNoEvents ==
    resp # NoResp =>
        (Built.status = "absent" <=> ~\E i \in 1..Len(events) : events[i].call_id = resp.call_id)

C4_Witness ==
    /\ resp # NoResp
    /\ Built.status = "ok"
    /\ CallEvents # <<>>
    /\ \A i \in 1..Len(CallEvents) : EventKey(CallEvents[i]) = <<>>
    /\ \E i \in 1..Len(events) : events[i].call_id # resp.call_id

\* the events with the payload of every event that is not the latest of its
\* type replaced by null
Superseded(evs, i) == \E m \in (i + 1)..Len(evs) : EventKey(evs[m]) = EventKey(evs[i])
LatestOnly(evs) ==
    [i \in 1..Len(evs) |->
        IF Superseded(evs, i) THEN [evs[i] EXCEPT !.payload = json_dumps(PyNone)] ELSE evs[i]]

(* C5: last write wins by store order: the record depends only on the latest
   event of each type; the payload of an earlier event of the same type never
   influences it, whatever the timestamps. *)
C5_LastWriteWins ==
    resp # NoResp => Built = BuildRecord(LatestOnly(CallEvents), resp.call_id)

C5_Witness ==
    /\ BuiltOk
    /\ \E i \in 1..Len(CallEvents), m \in 1..Len(CallEvents) :
          /\ i < m
          /\ EventKey(CallEvents[i]) = <<"call_classified">>
          /\ CallEvents[m].event_type = QuotedType("call_classified")
          /\ json_loads(CallEvents[i].payload).value = Dict1("call_duration_seconds", PyInt(90))
          /\ CallEvents[i].timestamp.ticks > CallEvents[m].timestamp.ticks
          /\ LatestIndex(CallEvents, "call_classified") = m
    /\ Built.call_duration_seconds # 90

(* C6: build is read-only and idempotent: it leaves the event log, the
   carrier profiles and the search preferences unchanged, and two builds of a
   call id with no write in between return the same record. *)
C6_BuildReadOnlyIdempotent ==
    [][resp' # NoResp =>
          /\ UNCHANGED <<events, carrier_profiles, call_search_prefs>>
          /\ (resp # NoResp /\ resp.call_id = resp'.call_id => resp'.result = resp.result)]_vars

C6_Witness ==
    /\ BuiltOk
    /\ Built.call_search_prefs # PyNone
    /\ Len(CallEvents) >= 2
    /\ Len(events) > Len(CallEvents)

\* a verify_mc_result written for a lookup that failed
IsLookupFailure(payload) ==
    IsDict(payload) /\ Get(payload, "ok") = PyBool(TRUE) /\ IsNone(Get(payload, "carrier"))

(* C7: when the FMCSA lookup of a verify_mc request fails, the record built
   for the call treats eligibility as unknown: verification_status is pending
   and the outcome is not failed_verification. *)
C7_LookupFailureIsUnknown ==
    (BuiltOk /\ IsLookupFailure(LatestPayload(CallEvents, "verify_mc_result"))) =>
        /\ Built.verification_status = "pending"
        /\ Built.outcome # "failed_verification"

(* C8: negotiation.agreed is true iff accepted of the latest
   negotiation_complete is boolean true, "true" or "True"; every other value
   (the numbers 1 and 1.0 among them) gives agreed = false and never booked. *)
C8_AgreedOnlyForTrueLiterals ==
    BuiltOk =>
        LET acc == LatestField(CallEvents, "negotiation_complete", "accepted") IN
        /\ Truthy(Built.negotiation) =>
              (Get(Built.negotiation, "agreed") = PyBool(TRUE) <=> acc \in TrueLiterals)
        /\ Built.outcome = "booked" => acc \in TrueLiterals

\* the whole seconds between the first and the last event, floored at zero
SpanSeconds(evs) ==
    LET ticks == evs[Len(evs)].timestamp.ticks - evs[1].timestamp.ticks IN
    IF ticks <= 0 THEN 0 ELSE ticks \div TicksPerSecond

(* C9: for every call with events the record's call_duration_seconds is the
   value reported by the latest call_classified when that value converts to
   an integer >= 0, whatever the span of the timestamps; otherwise it is the
   whole seconds between the first and the last event, floored at zero. It is
   an integer >= 0 in every record. *)
C9_DurationResolution ==
    (resp # NoResp /\ CallEvents # <<>>) =>
        LET reported == safe_number_convert(
                LatestField(CallEvents, "call_classified", "call_duration_seconds"), "int")
        IN  /\ BuiltOk
            /\ Built.call_duration_seconds \in Nat
            /\ Built.call_duration_seconds =
                  IF reported.t = "int" /\ reported.n >= 0 THEN reported.n
                  ELSE SpanSeconds(CallEvents)

(* C10: the payload normalizer is total: a mapping is returned as is, a
   string that decodes to a mapping through its layers of JSON encoding
   yields that mapping, every other input yields the empty mapping; its
   recursion is bounded by the layers of encoding. *)
C10_NormalizerTotal ==
    norm.called =>
        /\ norm.out.value = IF IsDict(norm.base) THEN norm.base ELSE EmptyDict
        /\ norm.out.depth <= norm.layers + 1

C10_Witness ==
    /\ norm.called
    /\ norm.layers >= 2
    /\ norm.base = Dict1("a", PyInt(1))
    /\ IsStr(norm.raw)
    /\ norm.out.value = norm.base
    /\ norm.out.depth >= 1

Sentiments == {"positive", "neutral", "negative", "frustrated"}

(* C11: the sentiment classifier is total: for every value of a sentiment
   field, a string or a number, a boolean, a list or a mapping, the build
   returns a record whose sentiment is one of positive, neutral, negative and
   frustrated; it never fails. *)
C11_SentimentTotal ==
    (resp # NoResp /\ CallEvents # <<>>) => (BuiltOk /\ Built.sentiment \in Sentiments)

\* the latest payload of a type as a mapping, empty without one
LatestDict(evs, name) ==
    IF IsDict(LatestPayload(evs, name)) THEN LatestPayload(evs, name) ELSE EmptyDict
NamesLoad(payload) == Truthy(Get(payload, "load_id")) \/ Truthy(Get(payload, "origin"))
\* the payload the load is resolved from
ChosenLoad(evs) ==
    IF NamesLoad(LatestDict(evs, "negotiation_complete"))
    THEN LatestDict(evs, "negotiation_complete")
    ELSE LatestDict(evs, "best_load_retrieved")
\* the listed rate of a payload, 0 when it is missing, unparsable or zero
ListedRate(payload) ==
    Or(safe_number_convert(Or(Get(payload, "loadboard_rate"), Get(payload, "rate")), "float"),
       PyInt(0))
TextFields ==
    {"load_id", "origin", "destination", "pickup_datetime", "delivery_datetime",
     "equipment_type", "notes", "dimensions"}
TextDefaults == {Word(EmDash), Word("Unknown"), Word("Van"), EmptyStr}

(* C12: load_matched is taken entirely from the latest negotiation_complete
   payload when that payload carries a non-empty load_id or origin, and
   otherwise entirely from the latest best_load_retrieved payload: every field
   is the chosen payload's or a fixed default, never the other payload's;
   load_matched is absent iff the chosen payload has neither a load_id nor an
   origin. *)
C12_LoadResolution ==
    BuiltOk =>
        LET chosen == ChosenLoad(CallEvents)
            load == Built.load_matched
        IN  /\ IsNone(load) <=> ~NamesLoad(chosen)
            /\ ~IsNone(load) =>
                  /\ \A f \in TextFields :
                        IF Truthy(Get(chosen, f)) THEN Get(load, f) = Get(chosen, f)
                        ELSE Get(load, f) \in TextDefaults
                  /\ PyEq(Get(load, "weight"),
                          Or(safe_number_convert(Get(chosen, "weight"), "float"), PyInt(0)))
                  /\ ~PyEq(ListedRate(chosen), PyInt(0)) =>
                        PyEq(Get(load, "loadboard_rate"), ListedRate(chosen))

C12_Witness ==
    /\ BuiltOk
    /\ HasType(CallEvents, "best_load_retrieved")
    /\ Get(LatestDict(CallEvents, "best_load_retrieved"), "destination") = Word("NY")
    /\ Get(LatestDict(CallEvents, "best_load_retrieved"), "load_id") = Word("L9")
    /\ Get(LatestDict(CallEvents, "negotiation_complete"), "origin") = Word("LA")
    /\ Get(Built.load_matched, "origin") = Word("LA")
    /\ Get(Built.load_matched, "destination") = Word("Unknown")
    /\ Get(Built.load_matched, "load_id") = Word(EmDash)

Positive(v) == IsNumber(v) /\ v.n > 0

(* C13: whenever a load is matched and its listed rate resolves to 0, the
   displayed loadboard_rate is the negotiation's initial offer when that is
   positive, otherwise the negotiation's final rate when that is positive;
   it stays 0 only if neither is positive. *)
C13_RateBackfill ==
    (BuiltOk /\ ~IsNone(Built.load_matched) /\ PyEq(ListedRate(ChosenLoad(CallEvents)), PyInt(0))) =>
        LET shown == Get(Built.load_matched, "loadboard_rate")
            initial_offer == Get(Built.negotiation, "initial_offer")
            final_rate == Get(Built.negotiation, "final_rate")
        IN  IF Positive(initial_offer) THEN PyEq(shown, initial_offer)
            ELSE IF Positive(final_rate) THEN PyEq(shown, final_rate)
            ELSE PyEq(shown, PyInt(0))

(* C14: whenever a record has a negotiation, negotiation.rounds is an integer
   >= 0 for every value of negotiation_rounds in the payload. *)
C14_RoundsNonNegative ==
    (BuiltOk /\ ~IsNone(Built.negotiation)) =>
        /\ Get(Built.negotiation, "rounds").t \in {"int", "bool"}
        /\ Get(Built.negotiation, "rounds").n >= 0

\* the record GET /api/calls/{c} would return after the step
BuildAfter(c) == BuildRecordIn(get_events_by_call_id(c)', c, carrier_profiles', call_search_prefs')
StoredCallIds == {events[i].call_id : i \in 1..Len(events)}
Extends(before, after) == Len(after) >= Len(before) /\ SubSeq(after, 1, Len(before)) = before

(* C15: the event log is append-only: every operation leaves the stored
   events as they are, in their order, and at most appends new ones after
   them, so eventsFor(call_id) keeps returning a call's events oldest first;
   once a call has a record, no operation makes build return absent for it or
   changes the record's timestamp. *)
C15_EventLogAppendOnly ==
    [][/\ Extends(events, events')
       /\ \A c \in StoredCallIds :
             \/ UNCHANGED <<get_events_by_call_id(c), carrier_profiles, call_search_prefs>>
             \/ LET before == _build_call_record(c)
                    after == BuildAfter(c)
                IN  /\ Extends(get_events_by_call_id(c), get_events_by_call_id(c)')
                    /\ before.status # "absent" => after.status # "absent"
                    /\ (before.status = "ok" /\ after.status = "ok") =>
                          after.timestamp = before.timestamp]_vars

C15_Witness ==
    /\ Len(events) = MaxEvents
    /\ events[1].call_id = Call1
    /\ events[2].call_id = Call2
    /\ events[Len(events)].call_id = Call1
    /\ events[Len(events)].event_type = events[1].event_type
    /\ resp.call_id = Call1
    /\ BuiltOk
    /\ Built.timestamp = events[1].timestamp

\* the upserts made on a key of a table, oldest first
UpsertsOn(key_column, key) ==
    SelectSeq(upserts, LAMBDA u : u.key_column = key_column /\ u.key = key)
UpsertKeys(key_column) ==
    {upserts[i].key : i \in {m \in 1..Len(upserts) : upserts[m].key_column = key_column}}
TableOf(key_column) == IF key_column = "mc_number" THEN carrier_profiles ELSE call_search_prefs
\* the upserts of a sequence that supply a non-null value for a column
Supplying(us, column) ==
    {i \in 1..Len(us) : column \in DOMAIN us[i].updates /\ ~IsNone(us[i].updates[column])}
\* the most recent non-null value supplied for a column, as the column keeps it
LastSupplied(us, column) ==
    LET i == CHOOSE m \in Supplying(us, column) : \A o \in Supplying(us, column) : o <= m
    IN  Affinity(column, us[i].updates[column])
\* what a column holds when no value was ever supplied for it: the default
\* of the schema if the upsert that created the row did not name the column
Unsupplied(us, key_column, column) ==
    IF column \notin DOMAIN us[1].updates /\ column \in DOMAIN ColumnDefaults(key_column)
    THEN ColumnDefaults(key_column)[column]
    ELSE PyNone

(* C16: after any sequence of upserts on a carrier profile or on call search
   preferences there is exactly one row for the key, and each field holds the
   most recent non-null value ever supplied for it, null only if none was
   ever supplied; rows are never deleted. *)
C16_PartialUpsert ==
    \A kc \in {"mc_number", "call_id"} :
        /\ DOMAIN TableOf(kc) = UpsertKeys(kc)
        /\ \A k \in UpsertKeys(kc), c \in Columns(kc) :
              Get(TableOf(kc)[k], c) =
                  IF Supplying(UpsertsOn(kc, k), c) # {} THEN LastSupplied(UpsertsOn(kc, k), c)
                  ELSE PyNone

(* C16 as amended: each field holds the most recent non-null value ever
   supplied for it; when none was ever supplied it holds null, or the default
   of its column (50 for origin_radius_miles and dest_radius_miles of a
   carrier profile) if the upsert that created the row left the column out. *)
C16_PartialUpsertDefaults ==
    \A kc \in {"mc_number", "call_id"} :
        /\ DOMAIN TableOf(kc) = UpsertKeys(kc)
        /\ \A k \in UpsertKeys(kc), c \in Columns(kc) :
              Get(TableOf(kc)[k], c) =
                  IF Supplying(UpsertsOn(kc, k), c) # {} THEN LastSupplied(UpsertsOn(kc, k), c)
                  ELSE Unsupplied(UpsertsOn(kc, k), kc, c)

C16_Witness ==
    /\ Len(UpsertsOn("mc_number", <<"7">>)) >= 2
    /\ UpsertsOn("mc_number", <<"7">>)[1].updates = [dot_number |-> PyInt(9), legal_name |-> Word("Acme"),
                                                      physical_city |-> Word("Reno"), physical_state |-> PyNone]
    /\ "physical_city" \in DOMAIN UpsertsOn("mc_number", <<"7">>)[2].updates
    /\ IsNone(UpsertsOn("mc_number", <<"7">>)[2].updates["physical_city"])
    /\ Get(carrier_profiles[<<"7">>], "physical_city") = Word("Reno")
    /\ Get(carrier_profiles[<<"7">>], "legal_name") = Word("Bolt")
    /\ Get(carrier_profiles[<<"7">>], "dest_radius_miles") = PyInt(DefaultRadius)
    /\ UpsertKeys("call_id") # {}

\* the carrier profile a record's mc_number names
ProfileOf(profiles, record) ==
    IF IsStr(record.mc_number) THEN SelectRow(profiles, record.mc_number.s) ELSE PyNone

(* C17: for call ids c and d with c # d, the operations performed under d
   (logging events, setting preferences, verifying a carrier, submitting a
   load) leave build(c) unchanged. *)
C17_Isolation ==
    [][\A c \in Calls, d \in IsolationCallIds :
          (c # d /\ UnderCallId(d)) => BuildAfter(c) = _build_call_record(c)]_vars

(* C17 as amended: for call ids c and d that differ after d is stripped of
   surrounding whitespace, the operations performed under d leave build(c)
   unchanged except for carrier_name, and leave carrier_name unchanged too
   unless they change the carrier profile of the record's MC number. *)
C17_IsolationButCarrierName ==
    [][\A c \in Calls, d \in IsolationCallIds :
          (c # _effective_call_id(d) /\ UnderCallId(d)) =>
              LET before == _build_call_record(c)
                  after == BuildAfter(c)
              IN  IF before.status # "ok" THEN after = before
                  ELSE /\ after.status = "ok"
                       /\ [after EXCEPT !.carrier_name = before.carrier_name] = before
                       /\ ProfileOf(carrier_profiles', before) = ProfileOf(carrier_profiles, before) =>
                              after = before]_vars

C17_Witness ==
    /\ Len(events) = MaxEvents
    /\ events[1].call_id = Call1
    /\ events[1].event_type = <<"verify_mc_result">>
    /\ events[2].call_id = Call2
    /\ events[3].call_id = Call2
    /\ <<"7">> \in DOMAIN carrier_profiles
    /\ _build_call_record(Call1).status = "ok"
    /\ _build_call_record(Call1).carrier_name = Word("Acme")

\* the stored events of the call ids that are neither blank nor 'unknown'
ListedEvents == SelectSeq(events, LAMBDA e : Strip(e.call_id) # <<>> /\ e.call_id # <<"unknown">>)
\* the position of the most recent event of a call
LastEventOf(c) == CHOOSE i \in 1..Len(events) :
                      events[i].call_id = c /\ \A k \in (i + 1)..Len(events) : events[k].call_id # c
\* what the aggregation in resp returns over a table of events
AggregationOver(evs) ==
    CASE resp.result.status = "list" ->
             [status |-> "list",
              filters |-> resp.result.filters,
              records |-> list_calls(evs, resp.result.filters[1], resp.result.filters[2],
                                     resp.result.filters[3])]
      [] resp.result.status = "overview" -> metrics_overview(evs, Now(1))
      [] resp.result.status = "negotiations" -> metrics_negotiations(evs)
      [] OTHER -> resp.result

(* C18: distinctCallIds returns every call id that has a stored event exactly
   once, ordered by the id of its most recent event descending, so that a
   call is at the front when an event has just been appended to it, and
   excludes blank ids and 'unknown'; the events stored under 'unknown' appear
   neither in the call list nor in a metric. *)
C18_DistinctCallIds ==
    LET ids == get_distinct_call_ids IN
    /\ {ids[i] : i \in 1..Len(ids)} =
           {c \in StoredCallIds : Strip(c) # <<>> /\ c # <<"unknown">>}
    /\ \A i, k \in 1..Len(ids) :
           i < k => (ids[i] # ids[k] /\ LastEventOf(ids[i]) > LastEventOf(ids[k]))
    /\ ListedEvents # <<>> => Head(ids) = ListedEvents[Len(ListedEvents)].call_id
    /\ resp.result = AggregationOver(ListedEvents)
    /\ resp.result.status = "list" =>
           \A i \in 1..Len(resp.result.records) : resp.result.records[i].id \in StoredCallIds \ {<<"unknown">>}

C18_Witness ==
    /\ Len(events) = MaxEvents
    /\ events[1].call_id = <<"unknown">>
    /\ events[1].event_type = <<"negotiation_complete">>
    /\ events[2].call_id = Call1
    /\ events[3].call_id = Call2
    /\ get_distinct_call_ids = <<Call2, Call1>>
    /\ resp.result.status = "overview"
    /\ resp.result.total_calls = 2

\* the call ids whose build raises
FailingCallIds == {c \in StoredCallIds : _build_call_record(c).status = "raised"}

(* C19: when the build of some call ids fails, the call list and the two
   metrics still complete, and what they return is what they return over
   the events of the remaining call ids. *)
C19_FailureTolerant ==
    resp.result.status \in {"list", "overview", "negotiations"} =>
        resp.result = AggregationOver(SelectSeq(events, LAMBDA e : e.call_id \notin FailingCallIds))

C19_Witness ==
    /\ Len(events) = MaxEvents
    /\ FailingCallIds = {Call1}
    /\ get_distinct_call_ids = <<Call1, Call2>>
    /\ resp.result.status = "negotiations"
    /\ resp.result.total_negotiations = 1

\* the records the negotiation metric is about, and those of them whose
\* negotiation has a final rate and a loadboard rate
NegotiationRecords ==
    SelectSeq(built_records(events), LAMBDA r : Truthy(r.negotiation) /\ Truthy(r.load_matched))
BothRatesKnown(r) ==
    /\ ~IsNone(safe_number_convert(Get(r.negotiation, "final_rate"), "float"))
    /\ NumHalves(_effective_loadboard_rate(r.load_matched, r.negotiation)) > 0

(* C20: the success rate of the negotiation metric is 100 times the number
   of records whose negotiation is agreed over the number of records whose
   negotiation has both a loadboard rate and a final rate known, and 0 when
   there is no such record: a record with a load and a negotiation but no
   final rate is not counted in the denominator. *)
C20_SuccessRate ==
    resp.result.status = "negotiations" =>
        resp.result.success_rate =
            rate_tenths(Count(NegotiationRecords, LAMBDA r : Truthy(Get(r.negotiation, "agreed"))),
                        Count(NegotiationRecords, BothRatesKnown))

\* the call ids of distinctCallIds whose build succeeds, and those of them
\* whose record is booked
BuiltCallIds ==
    {get_distinct_call_ids[i] : i \in 1..Len(get_distinct_call_ids)} \ FailingCallIds
BookedCallIds == {c \in BuiltCallIds : _build_call_record(c).outcome = "booked"}

(* C21: the conversion rate of the overview is the number of booked records
   over the number of built records, times 100, rounded to one decimal (it is
   the nearest tenth of a percent), and 0 when there is no record; the total
   counts exactly the call ids of distinctCallIds whose build succeeds. *)
C21_ConversionRate ==
    resp.result.status = "overview" =>
        LET total == Cardinality(BuiltCallIds)
            booked == Cardinality(BookedCallIds)
            tenths == resp.result.conversion_rate
        IN  /\ resp.result.total_calls = total
            /\ resp.result.call_outcomes.verified_booked = booked
            /\ total = 0 => tenths = 0
            /\ total > 0 => /\ 2 * (tenths * total - 1000 * booked) <= total
                            /\ 2 * (1000 * booked - tenths * total) <= total

C21_Witness ==
    /\ resp.result.status = "overview"
    /\ resp.result.total_calls = 3
    /\ resp.result.call_outcomes.verified_booked = 2
    /\ resp.result.conversion_rate = 667

\* the label the read record was classified from, trimmed and lower-cased
ReadLabel ==
    sentiment_label(LatestDict(CallEvents, "sentiment_classified"),
                    LatestDict(CallEvents, "call_classified"))
ReadLabelText == IF IsStr(ReadLabel) THEN Lower(Strip(ReadLabel.s)) ELSE <<>>
\* the synonym table of the classifier
SynonymTable ==
    [positive |-> {<<"positive">>, <<"professional", " ", "&", " ", "satisfied">>,
                   <<"friendly", " ", "&", " ", "cooperative">>,
                   <<"really", " ", "positive">>, <<"very", " ", "positive">>},
     neutral |-> {<<"neutral">>},
     negative |-> {<<"negative">>, <<"unprofessional">>, <<"really", " ", "negative">>,
                   <<"very", " ", "negative">>},
     frustrated |-> {<<"frustrated">>, <<"impatient">>, <<"dismissive">>, <<"angry">>}]
\* the same label in another case or inside whitespace
LabelVariants(toks) ==
    {toks, Lower(toks), <<" ">> \o toks, toks \o <<" ">>, <<" ">> \o Lower(toks) \o <<" ">>}

(* C23: the classifier applies its rules in a fixed order: an empty or absent
   label is neutral; else the trimmed, lower-cased label is looked up in the
   synonym table; else the substring fallback tries 'positive', then
   'negative', then one of 'frustrat', 'angry', 'impatient'; else neutral.
   The result does not depend on case or surrounding whitespace, and a label
   with both 'positive' and 'negative' that is no table entry is positive. *)
C23_SentimentRules ==
    (resp # NoResp /\ BuiltOk) =>
        LET s == ReadLabelText
            got == Built.sentiment
            listed == \E k \in Sentiments : s \in SynonymTable[k]
        IN  /\ ~Truthy(ReadLabel) => got = "neutral"
            /\ Truthy(ReadLabel) =>
                  /\ \A k \in Sentiments : s \in SynonymTable[k] => got = k
                  /\ ~listed =>
                        got = IF Contains(s, "positive") THEN "positive"
                              ELSE IF Contains(s, "negative") THEN "negative"
                              ELSE IF \E pat \in {"frustrat", "angry", "impatient"} : Contains(s, pat)
                                   THEN "frustrated"
                              ELSE "neutral"
                  /\ \A w \in LabelVariants(ReadLabel.s) : _normalize_sentiment(PyStr(w)) = got

C23_Witness ==
    /\ BuiltOk
    /\ ReadLabel = PyStr(<<"negative", " ", "Positive">>)
    /\ Built.sentiment = "positive"

\* the latest payloads the sentiment is read from
SentimentRow == LatestDict(CallEvents, "sentiment_classified")
ClassifiedRow == LatestDict(CallEvents, "call_classified")
\* the first non-empty value of a sequence, None without one
RECURSIVE FirstNonEmpty(_)
FirstNonEmpty(values) ==
    IF values = <<>> THEN PyNone
    ELSE IF Truthy(Head(values)) THEN Head(values)
    ELSE FirstNonEmpty(Tail(values))

(* C24: the sentiment of a record is the classification of the first
   non-empty value among the sentiment_classification and the sentiment of
   the latest sentiment_classified payload and the sentiment of the latest
   call_classified payload, in that order; call_classified is used only when
   sentiment_classified supplies neither, also when it was stored later; the
   sentiment is neutral when none of them is present. *)
C24_SentimentSource ==
    (resp # NoResp /\ BuiltOk) =>
        LET chosen == FirstNonEmpty(<<Get(SentimentRow, "sentiment_classification"),
                                      Get(SentimentRow, "sentiment"),
                                      Get(ClassifiedRow, "sentiment")>>)
        IN  /\ Built.sentiment = _normalize_sentiment(chosen)
            /\ IsNone(chosen) => Built.sentiment = "neutral"

C24_Witness ==
    /\ BuiltOk
    /\ Len(CallEvents) >= 2
    /\ EventKey(CallEvents[Len(CallEvents)]) = <<"call_classified">>
    /\ Get(ClassifiedRow, "sentiment") = Word("negative")
    /\ Get(SentimentRow, "sentiment_classification") = EmptyStr
    /\ Get(SentimentRow, "sentiment") = Word("angry")
    /\ Built.sentiment = "frustrated"

\* the reasoning of a mapping when nested objects are entered one level only
OneLevelReasoning(d) ==
    IF ~IsDict(d) THEN PyNone
    ELSE IF reasoning_at(d) # PyNone THEN reasoning_at(d)
    ELSE LET inside(i) == nested_dict(Get(d, NestedKeys[i]))
             found(i) == IF IsDict(inside(i)) THEN reasoning_at(inside(i)) ELSE PyNone
             hits == {i \in 1..Len(NestedKeys) : Truthy(found(i))}
         IN  IF hits = {} THEN PyNone
             ELSE found(CHOOSE i \in hits : \A j \in hits : i <= j)

(* C25: the reasoning of a record is the first non-blank string found under
   the candidate names, in their priority, at the top level of the
   sentiment_classified payload; only without one, inside its nested payload,
   data and body objects in that order, entered exactly one level and not
   deeper; only when sentiment_classified yields nothing is call_classified
   searched the same way; it is absent when nothing is found. *)
C25_ReasoningOneLevel ==
    (resp # NoResp /\ BuiltOk) =>
        Built.sentiment_reasoning =
            Or(OneLevelReasoning(SentimentRow), OneLevelReasoning(ClassifiedRow))

\* part occurs in whole as a run of consecutive tokens
IsInfix(part, whole) ==
    \E i \in 1..(Len(whole) - Len(part) + 1) : SubSeq(whole, i, i + Len(part) - 1) = part
\* the lines of a body at which a section begins
LinesOf(body, section) == {i \in 1..Len(body) : body[i] = section}

(* C22: the handoff formatter never fails and leaves its input as it was:
   for every record the build returns (without a load, without a
   negotiation, without a final rate, with all rates zero, without a
   reasoning) it returns a subject and a body; the subject holds the record's
   carrier name, outcome and call id, and the body holds the Carrier,
   Outcome, Load and Negotiation sections, in that order. *)
C22_HandoffTotal ==
    (resp # NoResp /\ _build_call_record(resp.call_id).status = "ok") =>
        LET rec == _build_call_record(resp.call_id)
            answer == resp.result
        IN  /\ answer.status = "handoff"
            /\ answer.rec = rec
            /\ IsInfix(Text(rec.carrier_name), answer.subject)
            /\ IsInfix(<<rec.outcome>>, answer.subject)
            /\ IsInfix(rec.id, answer.subject)
            /\ \E c \in LinesOf(answer.body, CarrierSection), o \in LinesOf(answer.body, OutcomeSection),
                   l \in LinesOf(answer.body, LoadSection), n \in LinesOf(answer.body, NegotiationSection) :
                      c < o /\ o < l /\ l < n
            /\ \A section \in {CarrierSection, OutcomeSection, LoadSection, NegotiationSection} :
                   Cardinality(LinesOf(answer.body, section)) = 1

C22_Witness ==
    /\ resp.result.status = "handoff"
    /\ resp.result.rec.load_matched = PyNone
    /\ resp.result.rec.negotiation # PyNone
    /\ Get(resp.result.rec.negotiation, "final_rate") = PyNone
    /\ resp.result.rec.sentiment_reasoning = PyNone
    /\ IsInfix(<<"Rate: ", "$", "0">>, resp.result.body[17])
    /\ resp.result.body[24] = <<"Final rate: ", EmDash>>

\* the latest verification payload, its carrier, and the name and the MC
\* number it carries
VerifyRow == LatestDict(CallEvents, "verify_mc_result")
CarrierRow == IF IsDict(Get(VerifyRow, "carrier")) THEN Get(VerifyRow, "carrier") ELSE EmptyDict
PayloadName == FirstNonEmpty(<<Get(CarrierRow, "name"), Get(CarrierRow, "legal_name")>>)
PayloadMc == FirstNonEmpty(<<Get(CarrierRow, "mc_number"), Get(VerifyRow, "mc_number")>>)
\* the legal name stored for the MC number of the payload, None without one
StoredName ==
    IF Truthy(PayloadMc) /\ profile_key(PayloadMc) \in DOMAIN carrier_profiles
    THEN Get(carrier_profiles[profile_key(PayloadMc)], "legal_name")
    ELSE PyNone
\* the table of profiles with another legal name for every MC number
Renamed ==
    [k \in (DOMAIN carrier_profiles) \cup {<<"7">>, <<"5">>} |-> Dict1("legal_name", Word("Zed"))]

(* C26: the carrier name of a record is the name of the latest
   verify_mc_result payload when it is not empty; else, when the payload
   gives an MC number, the legal name of the profile stored for it, if there
   is one; else "Unknown". The profile is not consulted when the payload
   carries a name or carries no MC number, and the mc_number of the record
   comes from the latest verify_mc_result payload only. *)
C26_CarrierIdentity ==
    (resp # NoResp /\ BuiltOk) =>
        /\ Built.carrier_name =
              IF Truthy(PayloadName) THEN PayloadName
              ELSE IF Truthy(StoredName) THEN StoredName
              ELSE Word("Unknown")
        /\ Built.mc_number = (IF Truthy(PayloadMc) THEN PayloadMc ELSE Word(EmDash))
        /\ (Truthy(PayloadName) \/ ~Truthy(PayloadMc)) =>
              \A profiles \in {<<>>, Renamed} :
                  BuildRecordIn(CallEvents, resp.call_id, profiles, call_search_prefs) = Built

C26_Witness ==
    /\ BuiltOk
    /\ ~Truthy(PayloadName)
    /\ PayloadMc = PyInt(7)
    /\ Len(upserts) >= 1
    /\ Built.carrier_name = Word("Acme")
    /\ Built.mc_number = PyInt(7)

\* the negotiation of the read record is agreed
BuiltAgreed == Built.negotiation # PyNone /\ Get(Built.negotiation, "agreed") = PyBool(TRUE)

(* C27: in every built record, the outcome is booked if and only if the
   verification status is not failed, the negotiation is present and its
   agreed flag is true; a record that is dropped or no_deal never has an
   agreed negotiation, though a dropped record may carry a negotiation, built
   from the matched load alone. *)
C27_BookedIffAgreed ==
    (resp # NoResp /\ BuiltOk) =>
        /\ Built.outcome = "booked" <=> (Built.verification_status # "failed" /\ BuiltAgreed)
        /\ Built.outcome \in {"dropped", "no_deal"} => ~BuiltAgreed

C27_Witness ==
    /\ BuiltOk
    /\ Built.outcome = "dropped"
    /\ Built.negotiation # PyNone
    /\ Built.load_matched # PyNone
    /\ ~HasType(CallEvents, "negotiation_complete")

\* the number of events of a type, and the requests of a call that wait
CountType(evs, name) == Len(SelectSeq(evs, LAMBDA e : EventKey(e) = <<name>>))
Awaiting(c) == Cardinality({i \in 1..Len(inflight) : inflight[i].cid = c})
\* in the log of every call, every prefix has no more results than requests,
\* and the requests are the results and the requests that wait
RequestedThenResult ==
    \A c \in {events[i].call_id : i \in 1..Len(events)} :
        LET evs == get_events_by_call_id(c) IN
        /\ \A k \in 1..Len(evs) :
              CountType(SubSeq(evs, 1, k), "verify_mc_result")
                  <= CountType(SubSeq(evs, 1, k), "verify_mc_requested")
        /\ CountType(evs, "verify_mc_requested") = CountType(evs, "verify_mc_result") + Awaiting(c)

(* C28: every verify_mc request appends one verify_mc_requested event and
   then one verify_mc_result event for its call id, on every path (no key,
   404, another status, no content, a carrier found, an exception): in the
   log of every call, also when requests overlap, every result comes after a
   request of its own, the results never outnumber the requests, and every
   request that waits is answered. *)
C28_RequestedThenResult == []RequestedThenResult /\ []<>(inflight = <<>>)

C28_Witness ==
    /\ inflight = <<>>
    /\ Len(events) = 4
    /\ \A i \in 1..4 : events[i].call_id = Call1
    /\ EventKey(events[1]) = <<"verify_mc_requested">>
    /\ EventKey(events[2]) = <<"verify_mc_requested">>
    /\ EventKey(events[3]) = <<"verify_mc_result">>
    /\ EventKey(events[4]) = <<"verify_mc_result">>
    /\ Get(_parse_payload(events[3].payload), "eligible") = PyBool(TRUE)

\* the effect the claim gives to a request of the logging specification
LoggedAs(c, t, p) ==
    IF p = PyNone THEN events' = events
    ELSE /\ Len(events') = Len(events) + 1
         /\ SubSeq(events', 1, Len(events)) = events
         /\ LET row == events'[Len(events')] IN
            /\ row.call_id = (IF c = <<>> \/ Strip(c) = <<>> THEN <<"unknown">> ELSE Strip(c))
            /\ row.event_type = (IF t = <<>> \/ Strip(t) = <<>> THEN <<"log_event">> ELSE Strip(t))
            /\ _parse_payload(row.payload) = p

(* C29: a log_event request without a payload is a schema probe and leaves
   the event log as it is; every other request appends exactly one event,
   under the call id 'unknown' when the call id is missing or blank, under
   the event type 'log_event' when the event type is missing or blank, and
   else under the trimmed call id and event type of the request. *)
C29_LogEventEffect ==
    [][\E c \in LogCallIds, t \in LogTypes, p \in LogPayloads : LoggedAs(c, t, p)]_vars

C29_Witness ==
    /\ Len(events) = 2
    /\ events[1].call_id = <<"unknown">>
    /\ events[1].event_type = <<"log_event">>
    /\ events[2].call_id = Call1
    /\ events[2].event_type = <<"note">>
    /\ _parse_payload(events[2].payload) = Dict1("a", PyInt(1))

\* the row of an upsert's key holds a value for every non-null field of the
\* upsert
Kept(u) ==
    /\ u.key \in DOMAIN TableOf(u.key_column)
    /\ \A column \in DOMAIN u.updates :
          ~IsNone(u.updates[column]) => ~IsNone(Get(TableOf(u.key_column)[u.key], column))

(* C30: upserts are safe under concurrency: for any interleaving of two
   upserts on one key, each an existence check followed by an insert or an
   update, both complete without error, there is exactly one row for the key
   afterwards, and the row holds every non-null field that either supplied. *)
C30_UpsertsRaceFree ==
    /\ resp.result.status # "raised"
    /\ inflight = <<>> => \A i \in 1..Len(upserts) : Kept(upserts[i])

====
